---- MODULE Spec2Model ----
(***************************************************************************)
(* A model of the news summarization pipeline of news-summarize.           *)
(*                                                                         *)
(* The repository holds two revisions of the pipeline, both live:          *)
(*   core   : src/src/news_summarizer/{core,utils,config}.py (the package) *)
(*   legacy : src/news_summarizer.py (the single-file script)              *)
(* Every operation is modelled once per revision; names ending in Core or  *)
(* Legacy say which.                                                       *)
(*                                                                         *)
(* Text is modelled by what the code reads of it: a body is a sequence of  *)
(* sentences (what sent_tokenize returns), each sentence a number of       *)
(* whitespace separated words; every word of a body takes charsPerWord     *)
(* characters (its letters and the blank after it) and tokensPerWord       *)
(* tokens of the exact tokenizer.                                          *)
(***************************************************************************)
EXTENDS Integers, Sequences, FiniteSets, TLC

(***************************************************************************)
(* Bounds of the model.                                                    *)
(***************************************************************************)
MaxSentences == 4

\* Words per sentence, tokens per word of the exact tokenizer, characters per
\* word, and the token budgets (SummaryConfig.max_chunk_tokens) explored.
SentenceWordCounts == {10, 30, 60}
TokensPerWordChoices == {1, 2}
CharsPerWordChoices == {3, 6}
ChunkBudgets == {40, 70, 100}

VARIABLES
    \* ---- the body and the chunker (_chunk_text)
    sentences,          \* the normalized body: words of each sentence, in order
    tokensPerWord,      \* exact tokenizer's tokens per word of this body
    max_chunk_tokens,   \* SummaryConfig.max_chunk_tokens
    chunks,             \* result of _chunk_text: each chunk the sentence positions it holds
    chunkedBy,          \* "none" | "core" | "legacy": which _chunk_text produced chunks
    \* ---- the summary orchestrator (_generate_base_summary)
    charsPerWord,       \* characters of each word of the body, its trailing blank included
    calls,              \* the calls made to the summarization service, in order
    summary,            \* result of _generate_base_summary
    summarizedBy,       \* "none" | "core" | "legacy"
    \* ---- the title composer (generate_short_title / _generate_short_title)
    titleText,          \* the words of the text the title is made from
    max_title_words,    \* SummaryConfig.max_title_words
    title,              \* the words of the returned title
    titledBy,           \* "none" | "core" | "legacy"
    \* ---- the hashtag generator (generate_hashtags / _generate_hashtags)
    hashText,           \* the lower-case tokens of the text
    min_hashtags,       \* SummaryConfig.min_hashtags
    max_hashtags,       \* SummaryConfig.max_hashtags
    hashtags,           \* the returned list
    taggedBy,           \* "none" | "core" | "legacy"
    \* ---- the pipeline entry point (summarize_article)
    rawBlank,           \* the raw body is empty or blank
    category_scores,    \* keyword matches of the body, per category
    bullish_count,      \* bullish indicators found in the body
    bearish_count,      \* bearish indicators found in the body
    sentimentCalls,     \* calls made to the sentiment service
    result,             \* what summarize_article returned, or that it raised
    pipelinedBy,        \* "none" | "core" | "legacy"
    \* ---- the category classifier (_analyze_story_context)
    contextText,        \* the phrases of the vocabulary that occur in the text
    contextSummary,     \* the phrases of the vocabulary that occur in the summary
    storyCategory,      \* the category (story type) returned
    classifiedBy,       \* "none" | "core" | "legacy"
    \* ---- the factual opening of the paragraph (_create_factual_opening)
    openingBody,        \* the sentences of the body: their words and the percentage they hold
    openingSummary,     \* the sentences of the model summary, likewise
    factual_opening,    \* the opening returned
    openedBy,           \* "none" | "core" | "legacy"
    \* ---- summarize_article run twice on the same input
    randomSource,       \* the values the random source yields, in order
    firstRun,           \* what the first run returned
    rerunDiffers,       \* the outputs of the second run that differ from the first
    runs,               \* the runs made
    \* ---- the task store of the HTTP service (api.py, api/app.py)
    apiRevision,        \* "core" (src/src/api/app.py) | "legacy" (src/api.py)
    summarizerLoaded,   \* the global summarizer is not None
    now,                \* datetime.now(), in hours
    task_results,       \* the task store: task id -> record
    background,         \* the background tasks added and not yet run
    ended,              \* the task ids whose process_summarization run raised
    httpLog,            \* the responses sent to POST /summarize and GET /task/{id}, in order
    lastSweep,          \* the last cleanup sweep: its time, the store before and after it
    \* ---- the paragraph assembler (_generate_journalistic_paragraph)
    paraMode,           \* "legacy" | "standard" | "fast": the revision and its configuration
    paraCategory,       \* the story type detected
    paraSentiment,      \* the sentiment detected
    paraSummary,        \* the model summary, character by character
    paraKeySentences,   \* the leading sentences of the body of more than five words
    paraFeatures,       \* what the assembler looks for in the body and finds
    paraDraws,          \* the values random.choice yields
    paragraph,          \* what _generate_journalistic_paragraph returned, or that it raised
    assembledBy         \* "none" | "core" | "legacy"

chunkVars == <<sentences, tokensPerWord, max_chunk_tokens, chunks, chunkedBy>>
summaryVars == <<charsPerWord, calls, summary, summarizedBy>>
titleVars == <<titleText, max_title_words, title, titledBy>>
hashVars == <<hashText, min_hashtags, max_hashtags, hashtags, taggedBy>>
pipeVars == <<rawBlank, category_scores, bullish_count, bearish_count,
              sentimentCalls, result, pipelinedBy>>

contextVars == <<contextText, contextSummary, storyCategory, classifiedBy>>

openingVars == <<openingBody, openingSummary, factual_opening, openedBy>>
rerunVars == <<randomSource, firstRun, rerunDiffers, runs>>
taskVars == <<apiRevision, summarizerLoaded, now, task_results, background, ended,
              httpLog, lastSweep>>

\* the components modelled after the pipeline entry point
paragraphVars == <<paraMode, paraCategory, paraSentiment, paraSummary, paraKeySentences,
                   paraFeatures, paraDraws, paragraph, assembledBy>>
laterVars == <<contextVars, openingVars, rerunVars, taskVars, paragraphVars>>

vars == <<chunkVars, summaryVars, titleVars, hashVars, pipeVars, laterVars>>

(***************************************************************************)
(* Helpers on sequences.                                                   *)
(***************************************************************************)
SeqsUpTo(S, n) == UNION {[1..k -> S] : k \in 0..n}

RECURSIVE SumSeq(_)
SumSeq(s) == IF s = <<>> THEN 0 ELSE Head(s) + SumSeq(Tail(s))

RECURSIVE Flatten(_)
Flatten(ss) == IF ss = <<>> THEN <<>> ELSE Head(ss) \o Flatten(Tail(ss))

Positions(s) == [i \in 1..Len(s) |-> i]

\* words of the chunk holding the sentence positions c of the body ws
ChunkWords(ws, c) == SumSeq([k \in 1..Len(c) |-> ws[c[k]]])

(***************************************************************************)
(* Token counts.  The estimate is len(sentence.split()) * 1.3; it is kept  *)
(* in tenths of a token so that the model stays in the integers.           *)
(***************************************************************************)
EstimatedTenths(words) == 13 * words

\* len(self.tokenizer.encode(x)) of a text of that many words
ExactTokens(words, perWord) == words * perWord

(***************************************************************************)
(* _chunk_text, core revision.                                             *)
(* The loop state is [chunks, current_chunk, current_tokens].              *)
(***************************************************************************)
ChunkStepCoreDropOverflow(st, ws, i, budget) ==
    LET sentence_tokens == EstimatedTenths(ws[i]) IN
    IF st.current_tokens + sentence_tokens <= 10 * budget
    THEN [chunks |-> st.chunks,
          current_chunk |-> Append(st.current_chunk, i),
          current_tokens |-> st.current_tokens + sentence_tokens]
    ELSE [chunks |-> IF st.current_chunk # <<>>
                     THEN Append(st.chunks, st.current_chunk) ELSE st.chunks,
          current_chunk |-> <<>>,
          current_tokens |-> 0]

ChunkStepCoreCloseEarly(st, ws, i, budget) ==
    [chunks |-> IF st.current_chunk # <<>>
                THEN Append(st.chunks, st.current_chunk) ELSE st.chunks,
     current_chunk |-> <<i>>,
     current_tokens |-> EstimatedTenths(ws[i])]

ChunkStepCoreNoBudget(st, ws, i, budget) ==
    [chunks |-> st.chunks,
     current_chunk |-> Append(st.current_chunk, i),
     current_tokens |-> st.current_tokens + EstimatedTenths(ws[i])]

ChunkStepCore(st, ws, i, budget) ==
    LET sentence_tokens == EstimatedTenths(ws[i]) IN
    IF st.current_tokens + sentence_tokens <= 10 * budget
    THEN [chunks |-> st.chunks,
          current_chunk |-> Append(st.current_chunk, i),
          current_tokens |-> st.current_tokens + sentence_tokens]
    ELSE [chunks |-> IF st.current_chunk # <<>>
                     THEN Append(st.chunks, st.current_chunk) ELSE st.chunks,
          current_chunk |-> <<i>>,
          current_tokens |-> sentence_tokens]

RECURSIVE ChunkLoopCore(_, _, _, _)
ChunkLoopCore(st, ws, i, budget) ==
    IF i > Len(ws)
    THEN IF st.current_chunk # <<>> THEN Append(st.chunks, st.current_chunk) ELSE st.chunks
    ELSE ChunkLoopCore(ChunkStepCore(st, ws, i, budget), ws, i + 1, budget)

\* the early return of the whole text when its exact token count fits
FitsExactly(ws, perWord, budget) == ExactTokens(SumSeq(ws), perWord) <= budget

ChunkTextCore(ws, perWord, budget) ==
    IF FitsExactly(ws, perWord, budget)
    THEN << Positions(ws) >>
    ELSE ChunkLoopCore([chunks |-> <<>>, current_chunk |-> <<>>, current_tokens |-> 0],
                       ws, 1, budget)

(***************************************************************************)
(* _chunk_text, legacy revision: every candidate chunk is encoded by the   *)
(* exact tokenizer.  The loop state is [chunks, current_chunk].            *)
(***************************************************************************)
ChunkStepLegacy(st, ws, perWord, i, budget) ==
    LET test_chunk == Append(st.current_chunk, i)
        token_count == ExactTokens(ChunkWords(ws, test_chunk), perWord) IN
    IF token_count <= budget
    THEN [chunks |-> st.chunks, current_chunk |-> test_chunk]
    ELSE [chunks |-> IF st.current_chunk # <<>>
                     THEN Append(st.chunks, st.current_chunk) ELSE st.chunks,
          current_chunk |-> <<i>>]

RECURSIVE ChunkLoopLegacy(_, _, _, _, _)
ChunkLoopLegacy(st, ws, perWord, i, budget) ==
    IF i > Len(ws)
    THEN IF st.current_chunk # <<>> THEN Append(st.chunks, st.current_chunk) ELSE st.chunks
    ELSE ChunkLoopLegacy(ChunkStepLegacy(st, ws, perWord, i, budget), ws, perWord, i + 1, budget)

ChunkTextLegacy(ws, perWord, budget) ==
    ChunkLoopLegacy([chunks |-> <<>>, current_chunk |-> <<>>], ws, perWord, 1, budget)

(***************************************************************************)
(* Texts as the orchestrator reads them: a number of words and a number of *)
(* characters.  A text of w words takes w * charsPerWord - 1 characters    *)
(* (no blank after its last word).                                         *)
(***************************************************************************)
TextOfWords(words, cpw) ==
    [words |-> words, chars |-> IF words = 0 THEN 0 ELSE words * cpw - 1]

\* text[:n]: a cut inside a word leaves the head of that word, which split() counts
Prefix(text, n, cpw) ==
    IF text.chars <= n THEN text ELSE [words |-> (n + cpw - 1) \div cpw, chars |-> n]

\* " ".join(texts)
RECURSIVE JoinTexts(_)
JoinTexts(texts) ==
    IF texts = <<>> THEN [words |-> 0, chars |-> 0]
    ELSE IF Len(texts) = 1 THEN Head(texts)
    ELSE LET rest == JoinTexts(Tail(texts)) IN
         [words |-> Head(texts).words + rest.words,
          chars |-> Head(texts).chars + 1 + rest.chars]

ChunkText(ws, c, cpw) == TextOfWords(ChunkWords(ws, c), cpw)

(***************************************************************************)
(* The summarization service.  A response is [ok, words]: the call raises  *)
(* (ok = FALSE) or returns a text of that many words; responses[k] answers *)
(* the k-th call of a run.                                                 *)
(***************************************************************************)
ServiceOutputWords == {20, 40}
\* the answers of a run of n calls: each call raises or not, and the service
\* returns texts of one length during the run
ServiceRuns(n) ==
    {[k \in 1..n |-> [ok |-> oks[k], words |-> w]] :
        oks \in [1..n -> BOOLEAN], w \in ServiceOutputWords}

\* _extract_summary_text of a successful call
ExtractSummaryText(resp, cpw) == TextOfWords(resp.words, cpw)

\* a part of a summary: what it was made from, and its text
ServicePart(input, resp, cpw) ==
    [src |-> "service", of |-> input, text |-> ExtractSummaryText(resp, cpw)]
SourcePart(input, text) ==
    [src |-> "source", of |-> input, text |-> text]
CallRecord(what, input, max_length, resp) ==
    [what |-> what, input |-> input, max_length |-> max_length, ok |-> resp.ok]

(***************************************************************************)
(* _generate_base_summary, core revision.                                  *)
(***************************************************************************)
SingleChunkMaxLengthCore == 60
BatchMaxLengthCore == 40
FinalMaxLengthCore == 60
SingleChunkFallbackChars == 500
BatchFallbackCharsCore == 150
CombinedFallbackCharsCore == 500
ResummarizeWordsCore == 100
BatchingThresholdCore == 3

\* one turn of the loop that groups chunks when there are more than three
GroupStepCore(st, ws, chunk, budget) ==
    LET chunk_tokens == EstimatedTenths(ChunkWords(ws, chunk)) IN
    IF st.current_tokens + chunk_tokens <= 8 * budget
    THEN [groups |-> st.groups,
          current_group |-> st.current_group \o chunk,
          current_tokens |-> st.current_tokens + chunk_tokens]
    ELSE [groups |-> IF st.current_group # <<>>
                     THEN Append(st.groups, st.current_group) ELSE st.groups,
          current_group |-> chunk,
          current_tokens |-> chunk_tokens]

RECURSIVE GroupLoopCore(_, _, _, _, _)
GroupLoopCore(st, ws, cs, i, budget) ==
    IF i > Len(cs)
    THEN IF st.current_group # <<>> THEN Append(st.groups, st.current_group) ELSE st.groups
    ELSE GroupLoopCore(GroupStepCore(st, ws, cs[i], budget), ws, cs, i + 1, budget)

BatchesCore(ws, cs, budget) ==
    IF Len(cs) > BatchingThresholdCore
    THEN GroupLoopCore([groups |-> <<>>, current_group |-> <<>>, current_tokens |-> 0],
                       ws, cs, 1, budget)
    ELSE cs

\* the loop over the batches: each is sent to the service; a failed call is
\* replaced by the head of the batch's own text
RECURSIVE BatchLoopCoreStopAtFailure(_, _, _, _, _)
BatchLoopCoreStopAtFailure(batches, responses, ws, cpw, k) ==
    IF k > Len(batches) THEN [parts |-> <<>>, calls |-> <<>>]
    ELSE LET call == CallRecord("chunk", batches[k], BatchMaxLengthCore, responses[k]) IN
         IF responses[k].ok
         THEN LET rest == BatchLoopCoreStopAtFailure(batches, responses, ws, cpw, k + 1) IN
              [parts |-> <<ServicePart(batches[k], responses[k], cpw)>> \o rest.parts,
               calls |-> <<call>> \o rest.calls]
         ELSE [parts |-> <<SourcePart(batches[k],
                              Prefix(ChunkText(ws, batches[k], cpw), BatchFallbackCharsCore, cpw))>>,
               calls |-> <<call>>]

RECURSIVE BatchLoopCore(_, _, _, _, _)
BatchLoopCore(batches, responses, ws, cpw, k) ==
    IF k > Len(batches) THEN [parts |-> <<>>, calls |-> <<>>]
    ELSE LET rest == BatchLoopCore(batches, responses, ws, cpw, k + 1)
             call == CallRecord("chunk", batches[k], BatchMaxLengthCore, responses[k])
             part == IF responses[k].ok
                     THEN ServicePart(batches[k], responses[k], cpw)
                     ELSE SourcePart(batches[k],
                              Prefix(ChunkText(ws, batches[k], cpw), BatchFallbackCharsCore, cpw))
         IN [parts |-> <<part>> \o rest.parts, calls |-> <<call>> \o rest.calls]

PartTexts(parts) == [k \in 1..Len(parts) |-> parts[k].text]
\* the sentences the parts were made from
PartSources(parts) == Flatten([k \in 1..Len(parts) |-> parts[k].of])

\* (" ".join(texts))[:n], cut text by text
RECURSIVE PrefixOfJoin(_, _, _)
PrefixOfJoin(texts, n, cpw) ==
    IF texts = <<>> \/ n <= 0 THEN [words |-> 0, chars |-> 0]
    ELSE IF Len(texts) = 1 \/ Head(texts).chars >= n THEN Prefix(Head(texts), n, cpw)
    ELSE IF Head(texts).chars + 1 >= n THEN [words |-> Head(texts).words, chars |-> n]
    ELSE LET rest == PrefixOfJoin(Tail(texts), n - Head(texts).chars - 1, cpw) IN
         [words |-> Head(texts).words + rest.words,
          chars |-> Head(texts).chars + 1 + rest.chars]

NoSummary == [origin |-> "none", text |-> [words |-> 0, chars |-> 0], parts |-> <<>>]
NoResult == [kind |-> "none"]

\* the single-chunk path: one call, or the head of the chunk when it raises
SingleChunkSummaryCoreNoFallback(ws, chunk, resp, cpw) ==
    [origin |-> IF resp.ok THEN "service" ELSE "chunk_prefix",
     text |-> IF resp.ok THEN ExtractSummaryText(resp, cpw) ELSE TextOfWords(0, cpw),
     parts |-> <<>>,
     calls |-> <<CallRecord("chunk", chunk, SingleChunkMaxLengthCore, resp)>>]

SingleChunkSummaryCore(ws, chunk, resp, cpw) ==
    LET part == IF resp.ok
                THEN ServicePart(chunk, resp, cpw)
                ELSE SourcePart(chunk, Prefix(ChunkText(ws, chunk, cpw),
                                              SingleChunkFallbackChars, cpw))
    IN [origin |-> IF resp.ok THEN "service" ELSE "chunk_prefix",
        text |-> part.text,
        parts |-> <<part>>,
        calls |-> <<CallRecord("chunk", chunk, SingleChunkMaxLengthCore, resp)>>]

\* the combination of the batch summaries
CombineSummariesCore(loop, final, cpw) ==
    LET texts == PartTexts(loop.parts)
        combined == JoinTexts(texts)
    IN IF Len(loop.parts) > 1
       THEN IF combined.words > ResummarizeWordsCore
            THEN [origin |-> IF final.ok THEN "service" ELSE "combined_prefix",
                  text |-> IF final.ok THEN ExtractSummaryText(final, cpw)
                           ELSE PrefixOfJoin(texts, CombinedFallbackCharsCore, cpw),
                  parts |-> loop.parts,
                  calls |-> Append(loop.calls, CallRecord("combined", PartSources(loop.parts), FinalMaxLengthCore, final))]
            ELSE [origin |-> "combined", text |-> combined,
                  parts |-> loop.parts, calls |-> loop.calls]
       ELSE [origin |-> "single_summary", text |-> loop.parts[1].text,
             parts |-> loop.parts, calls |-> loop.calls]

GenerateBaseSummaryCore(ws, perWord, budget, cpw, responses) ==
    LET cs == ChunkTextCore(ws, perWord, budget) IN
    IF cs = <<>>
    THEN [origin |-> "empty", text |-> TextOfWords(0, cpw), parts |-> <<>>, calls |-> <<>>]
    ELSE IF Len(cs) = 1
    THEN SingleChunkSummaryCore(ws, cs[1], responses[1], cpw)
    ELSE LET batches == BatchesCore(ws, cs, budget) IN
         CombineSummariesCore(BatchLoopCore(batches, responses, ws, cpw, 1),
                              responses[Len(batches) + 1], cpw)

(***************************************************************************)
(* _generate_base_summary, legacy revision.                                *)
(***************************************************************************)
SingleChunkMaxLengthLegacy == 200
BatchMaxLengthLegacy == 100
FinalMaxLengthLegacy == 250
BatchFallbackCharsLegacy == 200

\* a single-chunk path that asks the service again when the call raises
SingleChunkSummaryLegacyRetry(ws, chunk, resp, cpw) ==
    LET part == IF resp.ok
                THEN ServicePart(chunk, resp, cpw)
                ELSE SourcePart(chunk, Prefix(ChunkText(ws, chunk, cpw),
                                              SingleChunkFallbackChars, cpw))
        call == CallRecord("chunk", chunk, SingleChunkMaxLengthLegacy, resp)
    IN [origin |-> IF resp.ok THEN "service" ELSE "chunk_prefix",
        text |-> part.text,
        parts |-> <<part>>,
        calls |-> IF resp.ok THEN <<call>> ELSE <<call, call>>]

SingleChunkSummaryLegacy(ws, chunk, resp, cpw) ==
    LET part == IF resp.ok
                THEN ServicePart(chunk, resp, cpw)
                ELSE SourcePart(chunk, Prefix(ChunkText(ws, chunk, cpw),
                                              SingleChunkFallbackChars, cpw))
    IN [origin |-> IF resp.ok THEN "service" ELSE "chunk_prefix",
        text |-> part.text,
        parts |-> <<part>>,
        calls |-> <<CallRecord("chunk", chunk, SingleChunkMaxLengthLegacy, resp)>>]

RECURSIVE BatchLoopLegacy(_, _, _, _, _)
BatchLoopLegacy(batches, responses, ws, cpw, k) ==
    IF k > Len(batches) THEN [parts |-> <<>>, calls |-> <<>>]
    ELSE LET rest == BatchLoopLegacy(batches, responses, ws, cpw, k + 1)
             call == CallRecord("chunk", batches[k], BatchMaxLengthLegacy, responses[k])
             part == IF responses[k].ok
                     THEN ServicePart(batches[k], responses[k], cpw)
                     ELSE SourcePart(batches[k],
                              Prefix(ChunkText(ws, batches[k], cpw), BatchFallbackCharsLegacy, cpw))
         IN [parts |-> <<part>> \o rest.parts, calls |-> <<call>> \o rest.calls]

\* the combined text is sent once more when the tokenizer says it fits
CombineSummariesLegacy(loop, final, perWord, budget, cpw) ==
    LET combined == JoinTexts(PartTexts(loop.parts)) IN
    IF ExactTokens(combined.words, perWord) <= budget
    THEN [origin |-> IF final.ok THEN "service" ELSE "combined",
          text |-> IF final.ok THEN ExtractSummaryText(final, cpw) ELSE combined,
          parts |-> loop.parts,
          calls |-> Append(loop.calls, CallRecord("combined", PartSources(loop.parts), FinalMaxLengthLegacy, final))]
    ELSE [origin |-> "combined", text |-> combined,
          parts |-> loop.parts, calls |-> loop.calls]

GenerateBaseSummaryLegacy(ws, perWord, budget, cpw, responses) ==
    LET cs == ChunkTextLegacy(ws, perWord, budget) IN
    IF cs = <<>>
    THEN [origin |-> "empty", text |-> TextOfWords(0, cpw), parts |-> <<>>, calls |-> <<>>]
    ELSE IF Len(cs) = 1
    THEN SingleChunkSummaryLegacy(ws, cs[1], responses[1], cpw)
    ELSE CombineSummariesLegacy(BatchLoopLegacy(cs, responses, ws, cpw, 1),
                                responses[Len(cs) + 1], perWord, budget, cpw)

(***************************************************************************)
(* The title composer.  A text is a sequence of words of a small           *)
(* vocabulary, one for each way the two revisions treat a word; a title is *)
(* the sequence of the words of the returned string (what title.split()    *)
(* gives), so the empty string is the empty sequence.                      *)
(***************************************************************************)
TitleWords == {"the", "&", "Apple", "surges", "misses", "market", "50%"}
MaxTitleTextWords == 4
MaxTitleWords == 3

Min(a, b) == IF a <= b THEN a ELSE b

\* the elements of a set of integers, ascending
RECURSIVE Ascending(_)
Ascending(S) ==
    IF S = {} THEN <<>>
    ELSE LET m == CHOOSE x \in S : \A y \in S : x <= y IN <<m>> \o Ascending(S \ {m})

\* word.lower()
Lower(word) == IF word = "Apple" THEN "apple" ELSE word
\* re.sub(r'[^\w]', '', word.lower())
CleanWord(word) == IF word = "&" THEN "" ELSE Lower(word)
\* word[0].isupper()
StartsUpper(word) == word = "Apple"
\* len(word) > 1
LongerThanOne(word) == word # "&"
\* any(char.isdigit() ...) or '%' in word or '$' in word
HasDigitOrSign(word) == word = "50%"

DefaultTitleCore == <<"News", "Update">>
FillerWordsCore == {"the"}
FinancialTermsCore == {"market"}
\* action_words_scoring, in tenths
ActionScoreTenthsCore(clean) ==
    CASE clean = "surges" -> 10
      [] clean = "misses" -> -10
      [] OTHER -> 0

\* the words that get a score: those with letters left that are no fillers
ScoredIndicesCore(text) ==
    {i \in 1..Len(text) : CleanWord(text[i]) # "" /\ CleanWord(text[i]) \notin FillerWordsCore}

\* the score of the word at 0-based position i - 1, in tenths
WordScoreTenthsCore(text, i) ==
    (IF i - 1 < 5 THEN 30 ELSE IF i - 1 < 10 THEN 20 ELSE IF i - 1 < 15 THEN 10 ELSE 0)
    + (IF StartsUpper(text[i]) THEN 20 ELSE 0)
    + ActionScoreTenthsCore(CleanWord(text[i]))
    + (IF CleanWord(text[i]) \in FinancialTermsCore THEN 30 ELSE 0)
    + (IF StartsUpper(text[i]) /\ LongerThanOne(text[i]) THEN 10 ELSE 0)

\* place of i in sorted(word_scores.items(), key=(-score, index)), from 1
RankCore(text, i) ==
    1 + Cardinality({j \in ScoredIndicesCore(text) :
            \/ WordScoreTenthsCore(text, j) > WordScoreTenthsCore(text, i)
            \/ WordScoreTenthsCore(text, j) = WordScoreTenthsCore(text, i) /\ j < i})

GenerateShortTitleCore(text, max_words) ==
    IF text = <<>> THEN DefaultTitleCore
    ELSE IF ScoredIndicesCore(text) = {}
    THEN SubSeq(text, 1, Min(max_words, Len(text)))
    ELSE LET selected == Ascending({i \in ScoredIndicesCore(text) : RankCore(text, i) <= max_words})
             title_words == [k \in 1..Len(selected) |-> text[selected[k]]]
         IN IF title_words # <<>> THEN title_words ELSE DefaultTitleCore

DefaultTitleLegacy == <<"Breaking", "News">>
LastResortTitleLegacy == <<"Breaking", "News", "Update">>
FillerWordsLegacy == {"the"}
ActionWordsLegacy == {"surges", "market"}

WordScoreLegacy(text, i) ==
    (IF i - 1 < 3 THEN 3 ELSE IF i - 1 < 5 THEN 2 ELSE 1)
    + (IF StartsUpper(text[i]) /\ LongerThanOne(text[i]) THEN 3 ELSE 0)
    + (IF HasDigitOrSign(text[i]) THEN 2 ELSE 0)
    + (IF Lower(text[i]) \in ActionWordsLegacy THEN 2 ELSE 0)
    - (IF Lower(text[i]) \in FillerWordsLegacy THEN 2 ELSE 0)

\* place of i in word_scores sorted by (-score, position), from 1
RankLegacy(text, i) ==
    1 + Cardinality({j \in 1..Len(text) :
            \/ WordScoreLegacy(text, j) > WordScoreLegacy(text, i)
            \/ WordScoreLegacy(text, j) = WordScoreLegacy(text, i) /\ j < i})

\* the indices of a set in the order of the sorted word_scores
RECURSIVE ByRankLegacy(_, _)
ByRankLegacy(text, S) ==
    IF S = {} THEN <<>>
    ELSE LET m == CHOOSE x \in S : \A y \in S : RankLegacy(text, x) <= RankLegacy(text, y)
         IN <<m>> \o ByRankLegacy(text, S \ {m})

\* re.sub(r'[^\w\s\-$%]', '', title): what is left of each word, if anything
RECURSIVE CleanUpTitleLegacy(_)
CleanUpTitleLegacy(words) ==
    IF words = <<>> THEN <<>>
    ELSE IF Head(words) = "&" THEN CleanUpTitleLegacy(Tail(words))
    ELSE <<Head(words)>> \o CleanUpTitleLegacy(Tail(words))

GenerateShortTitleLegacy(text, max_title_words_) ==
    LET positive == {i \in 1..Len(text) : WordScoreLegacy(text, i) > 0}
        \* the loop takes the positive words in sorted order until it has enough
        ranked == ByRankLegacy(text, positive)
        selected == Ascending({ranked[k] : k \in 1..Min(max_title_words_, Len(ranked))})
        cleaned == CleanUpTitleLegacy([k \in 1..Len(selected) |-> text[selected[k]]])
        important == ByRankLegacy(text, {i \in 1..Len(text) : WordScoreLegacy(text, i) > 1})
        important_words == [k \in 1..Min(max_title_words_, Len(important)) |-> text[important[k]]]
        fallback == IF important_words # <<>> THEN important_words ELSE DefaultTitleLegacy
        short_title == IF cleaned = <<>> \/ Len(cleaned) < 2 THEN fallback ELSE cleaned
    IN IF short_title # <<>> THEN short_title ELSE LastResortTitleLegacy

(***************************************************************************)
(* The hashtag generator.  A text is the sequence of its lower-case        *)
(* tokens, of a small vocabulary; the result is the list of hashtags.      *)
(***************************************************************************)
HashWords == {"bitcoin", "trading", "update", "the"}
MaxHashTextWords == 2
MaxHashtags == 6

\* a hashtag: its first character and the rest
Tag(rest) == [prefix |-> "#", rest |-> rest]

\* word.title(), which is word.capitalize() for these words
Capitalized(word) ==
    CASE word = "bitcoin" -> "Bitcoin"
      [] word = "trading" -> "Trading"
      [] word = "update" -> "Update"
      [] OTHER -> "The"

\* f"#{word.title()}" and f"#{word.capitalize()}"
HashtagOf(word) == Tag(Capitalized(word))

\* the arrangements of k elements of a set: what the first k entries of
\* list(set(...)) can be, the order of a set of strings being unspecified
RECURSIVE Arrangements(_, _)
Arrangements(S, k) ==
    IF k = 0 \/ S = {} THEN {<<>>}
    ELSE UNION {{<<x>> \o rest : rest \in Arrangements(S \ {x}, k - 1)} : x \in S}

FinancialKeywordsCore == {"bitcoin", "trading"}
BaseHashtagsCore == {Tag("News"), Tag("Finance"), Tag("Trading"), Tag("Market"), Tag("Investment")}
RelevantWordsKept == 3

\* while len(hashtags) < min_count: hashtags.append(random.choice(base_hashtags))
RECURSIVE PaddedCore(_, _)
PaddedCore(tags, min_count) ==
    IF Len(tags) >= min_count THEN {tags}
    ELSE UNION {PaddedCore(Append(tags, b), min_count) : b \in BaseHashtagsCore}

\* the lists generate_hashtags can return
GenerateHashtagsCore(text, min_count, max_count) ==
    LET relevant_words == SelectSeq(text, LAMBDA w : w \in FinancialKeywordsCore)
        kept == SubSeq(relevant_words, 1, Min(RelevantWordsKept, Len(relevant_words)))
        unique == {HashtagOf(kept[k]) : k \in 1..Len(kept)} \cup BaseHashtagsCore
    IN UNION {PaddedCore(first, min_count) :
                first \in Arrangements(unique, Min(max_count, Cardinality(unique)))}

\* len(word) > 3 and word.isalpha() and word not in the stop list
ImportantWordLegacy(word) == word \in {"bitcoin", "trading", "update"}
CommonHashtagsLegacy == <<Tag("BreakingNews"), Tag("News"), Tag("Update"), Tag("Latest")>>

\* the occurrences of a word in a sequence
Occurrences(text, word) == Cardinality({i \in 1..Len(text) : text[i] = word})
FirstIndex(text, word) == CHOOSE i \in 1..Len(text) : text[i] = word /\ \A j \in 1..(i - 1) : text[j] # word

\* sorted(word_freq.items(), key=frequency, reverse=True): by frequency, and
\* by first occurrence among equals (the sort is stable)
RECURSIVE TopWordsLegacy(_, _)
TopWordsLegacy(text, S) ==
    IF S = {} THEN <<>>
    ELSE LET m == CHOOSE x \in S : \A y \in S :
                    \/ Occurrences(text, x) > Occurrences(text, y)
                    \/ /\ Occurrences(text, x) = Occurrences(text, y)
                       /\ FirstIndex(text, x) <= FirstIndex(text, y)
         IN <<m>> \o TopWordsLegacy(text, S \ {m})

\* while len(hashtags) < min_hashtags and common_hashtags: append(pop(0))
RECURSIVE PaddedLegacy(_, _, _)
PaddedLegacy(tags, common, min_hashtags_) ==
    IF Len(tags) < min_hashtags_ /\ common # <<>>
    THEN PaddedLegacy(Append(tags, Head(common)), Tail(common), min_hashtags_)
    ELSE tags

GenerateHashtagsLegacy(text, min_hashtags_, max_hashtags_) ==
    LET important_words == {text[i] : i \in {j \in 1..Len(text) : ImportantWordLegacy(text[j])}}
        top_words == TopWordsLegacy(text, important_words)
        hashtags_ == [k \in 1..Min(max_hashtags_, Len(top_words)) |-> HashtagOf(top_words[k])]
        padded == PaddedLegacy(hashtags_, CommonHashtagsLegacy, min_hashtags_)
    IN SubSeq(padded, 1, Min(max_hashtags_, Len(padded)))

(***************************************************************************)
(* The pipeline entry point, summarize_article.  Of the body it reads, the *)
(* model keeps the sentences (for the summary), the keyword matches per    *)
(* category and the sentiment indicators found.  The core revision is      *)
(* modelled in its standard mode.                                          *)
(***************************************************************************)
\* FINANCIAL_STORY_TYPES, in the order of the table
Categories == <<"crypto", "stock_earnings", "stock_movement", "fed_policy", "market_general">>
MaxKeywordHits == 1
MaxIndicatorHits == 2
PipelineBodies == SeqsUpTo(SentenceWordCounts, 1) \cup {<<30, 30>>}
\* the labels the sentiment service answers with, an empty answer, or that it raises
SentimentOutcomes == {"positive", "negative", "neutral", "other", "empty", "raises"}
\* GEN_Z_TRADING_VOCABULARY['emojis']
EmojiKeys == {"positive", "negative", "neutral"}

BodyChars(ws, cpw) == TextOfWords(SumSeq(ws), cpw).chars

\* FINANCIAL_STORY_TYPES[category]['keywords'], core revision (config.py)
KeywordsCore(category) ==
    CASE category = "crypto" ->
           {"bitcoin", "btc", "ethereum", "eth", "crypto", "blockchain", "defi", "nft",
            "token", "coin", "doge", "ada", "sol", "l2", "airdrops"}
      [] category = "stock_earnings" ->
           {"earnings", "eps", "revenue", "quarterly", "q1", "q2", "q3", "q4", "guidance",
            "beat", "miss", "forward outlook"}
      [] category = "stock_movement" ->
           {"stock", "share", "equity", "nyse", "nasdaq", "trading", "volume",
            "price action", "pre-market", "after-hours"}
      [] category = "fed_policy" ->
           {"fed", "federal reserve", "interest rate", "jerome powell", "fomc",
            "monetary policy", "inflation", "cpi", "core pce"}
      [] OTHER ->
           {"market", "spy", "qqq", "dow", "nasdaq", "s&p", "index", "volatility", "vix",
            "macro"}

\* FINANCIAL_STORY_TYPES[category]['keywords'], legacy revision
KeywordsLegacy(category) ==
    CASE category = "crypto" ->
           {"bitcoin", "btc", "ethereum", "eth", "crypto", "blockchain", "defi", "nft",
            "token", "coin", "doge", "ada", "sol"}
      [] category = "stock_earnings" ->
           {"earnings", "eps", "revenue", "quarterly", "q1", "q2", "q3", "q4", "guidance",
            "beat", "miss"}
      [] category = "stock_movement" ->
           {"stock", "share", "equity", "nyse", "nasdaq", "trading", "volume", "price action"}
      [] category = "fed_policy" ->
           {"fed", "federal reserve", "interest rate", "jerome powell", "fomc",
            "monetary policy", "inflation", "cpi"}
      [] OTHER ->
           {"market", "spy", "qqq", "dow", "nasdaq", "s&p", "index", "volatility", "vix"}

\* The phrases a text or a summary is made of when it is classified, and how
\* many of them a text holds at most.
ContextPhrases == {"bitcoin", "earnings", "nasdaq", "federal reserve", "volatility", "weather"}
MaxContextPhrases == 3

\* `keyword in combined_text` is a substring test: the keywords of the tables
\* that are substrings of a phrase
KeywordsWithin(phrase) ==
    CASE phrase = "bitcoin" -> {"bitcoin", "coin"}
      [] phrase = "earnings" -> {"earnings"}
      [] phrase = "nasdaq" -> {"nasdaq"}
      [] phrase = "federal reserve" -> {"fed", "federal reserve"}
      [] phrase = "volatility" -> {"volatility"}
      [] OTHER -> {}

\* combined_text = f"{text} {summary}".lower(), as the phrases it holds
CombinedText(text, summary_) == text \cup summary_

\* sum(1 for keyword in keywords if keyword in combined_text)
KeywordMatches(keywords, combined_text) ==
    Cardinality({keyword \in keywords :
                    \E phrase \in combined_text : keyword \in KeywordsWithin(phrase)})

CategoryScoresCore(combined_text) ==
    [k \in 1..Len(Categories) |-> KeywordMatches(KeywordsCore(Categories[k]), combined_text)]

CategoryScoresLegacy(combined_text) ==
    [k \in 1..Len(Categories) |-> KeywordMatches(KeywordsLegacy(Categories[k]), combined_text)]

RECURSIVE StoryTypeLoopCoreLastWins(_, _, _, _)
StoryTypeLoopCoreLastWins(scores, k, story_type, max_matches) ==
    IF k > Len(Categories) THEN story_type
    ELSE IF scores[k] >= max_matches
    THEN StoryTypeLoopCoreLastWins(scores, k + 1, Categories[k], scores[k])
    ELSE StoryTypeLoopCoreLastWins(scores, k + 1, story_type, max_matches)

\* the loop over the table that keeps the first category with the most matches
RECURSIVE StoryTypeLoopCore(_, _, _, _)
StoryTypeLoopCore(scores, k, story_type, max_matches) ==
    IF k > Len(Categories) THEN story_type
    ELSE IF scores[k] > max_matches
    THEN StoryTypeLoopCore(scores, k + 1, Categories[k], scores[k])
    ELSE StoryTypeLoopCore(scores, k + 1, story_type, max_matches)

StoryTypeCoreFromFirstEntry(scores) == StoryTypeLoopCore(scores, 1, Categories[1], 0)

StoryTypeCore(scores) == StoryTypeLoopCore(scores, 1, "market_general", 0)

\* _analyze_sentiment: the label mapped to the three polarities, neutral on failure
AnalyzeSentimentCore(outcome) ==
    CASE outcome = "positive" -> "positive"
      [] outcome = "negative" -> "negative"
      [] OTHER -> "neutral"

SummarizeArticleCore(ws, perWord, budget, cpw, responses, scores, outcome) ==
    LET base == GenerateBaseSummaryCore(ws, perWord, budget, cpw, responses) IN
    [base |-> base,
     sentimentCalls |-> 1,
     result |-> [kind |-> "record",
                 story_type |-> StoryTypeCore(scores),
                 sentiment |-> AnalyzeSentimentCore(outcome)]]

\* max(category_scores, key=category_scores.get): the first category with the
\* highest score, when any score is positive
StoryTypeLegacy(scores) ==
    IF \E k \in 1..Len(scores) : scores[k] > 0
    THEN Categories[CHOOSE k \in 1..Len(scores) :
                        /\ \A j \in 1..Len(scores) : scores[j] <= scores[k]
                        /\ \A j \in 1..(k - 1) : scores[j] < scores[k]]
    ELSE "stock_movement"

DetectedSentimentLegacy(bullish, bearish) ==
    IF bullish > bearish + 1 THEN "bullish"
    ELSE IF bearish > bullish + 1 THEN "bearish"
    ELSE "neutral"

\* _generate_journalistic_paragraph: _create_trading_analysis looks the emojis
\* up under the detected sentiment before anything else
JournalisticParagraphLegacy(scores, bullish, bearish) ==
    LET story_type == StoryTypeLegacy(scores)
        detected_sentiment == DetectedSentimentLegacy(bullish, bearish)
    IN IF detected_sentiment \in EmojiKeys
       THEN [kind |-> "record", story_type |-> story_type, sentiment |-> detected_sentiment]
       ELSE [kind |-> "raised", exception |-> "KeyError",
             story_type |-> story_type, sentiment |-> detected_sentiment]

NoBaseSummary == [origin |-> "none", text |-> [words |-> 0, chars |-> 0],
                  parts |-> <<>>, calls |-> <<>>]

SummarizeArticleLegacy(blank, ws, perWord, budget, cpw, responses, scores, bullish, bearish) ==
    IF blank
    THEN [base |-> NoBaseSummary, sentimentCalls |-> 0,
          result |-> [kind |-> "error", error |-> "Empty article text provided."]]
    ELSE LET base == GenerateBaseSummaryLegacy(ws, perWord, budget, cpw, responses) IN
         IF base.text.chars = 0
         THEN [base |-> base, sentimentCalls |-> 0,
               result |-> [kind |-> "error", error |-> "Could not generate summary."]]
         ELSE [base |-> base, sentimentCalls |-> 0,
               result |-> JournalisticParagraphLegacy(scores, bullish, bearish)]

(***************************************************************************)
(* The factual opening of the paragraph.  A sentence is the number of its  *)
(* words and the percentage it holds, as its last word (0: none); "50%" is *)
(* the number 50.  The core revision extracts the digits without the sign. *)
(***************************************************************************)
OpeningSentenceWords == {4, 8, 30}
PercentValues == {0, 50, 150}
MaxOpeningSentences == 3
MaxOpeningSummarySentences == 2

OpeningSentences == [words : OpeningSentenceWords, percentage : PercentValues]

\* the percentages a text holds, in order
PercentagesOf(text) ==
    LET held == SelectSeq(text, LAMBDA sentence : sentence.percentage # 0)
    IN [k \in 1..Len(held) |-> held[k].percentage]

\* re.findall(...)[:3] and [:5]
PercentagesKeptLegacy == 3
PercentagesKeptCore == 5
ExtractPercentagesLegacy(text) ==
    SubSeq(PercentagesOf(text), 1, Min(PercentagesKeptLegacy, Len(PercentagesOf(text))))
ExtractPercentagesCore(text) ==
    SubSeq(PercentagesOf(text), 1, Min(PercentagesKeptCore, Len(PercentagesOf(text))))

\* `percentage in text`, a substring test: "50%" occurs in "50%" and in "150%"
PercentageOccurs(percentage, held) ==
    \E k \in 1..Len(held) : held[k] = percentage \/ (percentage = 50 /\ held[k] = 150)

\* _create_factual_opening, legacy revision: the summary, and the leading
\* percentage of the body appended when the summary does not hold it
CreateFactualOpeningLegacy(summary_, percentages) ==
    LET factual_base == PercentagesOf(summary_)
        add == percentages # <<>> /\ ~PercentageOccurs(percentages[1], factual_base)
    IN [percentages |-> IF add THEN Append(factual_base, percentages[1]) ELSE factual_base,
        added |-> add]

\* _create_factual_opening, core revision: the first two of the first three
\* sentences of the body that have more than five words, cut to forty words;
\* the first sentence of the summary when there is none.  key_data is not read.
KeySentenceMinWords == 5
KeySentencesScanned == 3
KeySentencesTaken == 2
OpeningMaxWordsCore == 40
CreateFactualOpeningCore(text, summary_) ==
    LET scanned == SubSeq(text, 1, Min(KeySentencesScanned, Len(text)))
        key_sentences == SelectSeq(scanned, LAMBDA sentence : sentence.words > KeySentenceMinWords)
        taken == SubSeq(key_sentences, 1, Min(KeySentencesTaken, Len(key_sentences)))
        endsAt(k) == SumSeq([j \in 1..k |-> taken[j].words])
        kept == {k \in 1..Len(taken) : taken[k].percentage # 0 /\ endsAt(k) <= OpeningMaxWordsCore}
        keptSeq == Ascending(kept)
    IN IF key_sentences # <<>>
       THEN [percentages |-> [k \in 1..Len(keptSeq) |-> taken[keptSeq[k]].percentage],
             added |-> FALSE]
       ELSE [percentages |-> PercentagesOf(SubSeq(summary_, 1, Min(1, Len(summary_)))),
             added |-> FALSE]

(***************************************************************************)
(* The chunker as a state machine: a body and a budget are given, one of   *)
(* the two _chunk_text revisions runs on them.                             *)
(***************************************************************************)
ChunkInputs ==
    /\ sentences \in SeqsUpTo(SentenceWordCounts, MaxSentences)
    /\ tokensPerWord \in TokensPerWordChoices
    /\ max_chunk_tokens \in ChunkBudgets
    /\ chunks = <<>>
    /\ chunkedBy = "none"

\* a component that is not run stays as it is built
ChunkIdle ==
    /\ sentences = <<>>
    /\ tokensPerWord = 1
    /\ max_chunk_tokens = 40
    /\ chunks = <<>>
    /\ chunkedBy = "none"

SummaryIdle ==
    /\ charsPerWord = 3
    /\ calls = <<>>
    /\ summary = NoSummary
    /\ summarizedBy = "none"

TitleIdle ==
    /\ titleText = <<>>
    /\ max_title_words = 0
    /\ title = <<>>
    /\ titledBy = "none"

HashIdle ==
    /\ hashText = <<>>
    /\ min_hashtags = 0
    /\ max_hashtags = 0
    /\ hashtags = <<>>
    /\ taggedBy = "none"

PipeIdle ==
    /\ rawBlank = FALSE
    /\ category_scores = <<>>
    /\ bullish_count = 0
    /\ bearish_count = 0
    /\ sentimentCalls = 0
    /\ result = NoResult
    /\ pipelinedBy = "none"

ContextIdle ==
    /\ contextText = {}
    /\ contextSummary = {}
    /\ storyCategory = "none"
    /\ classifiedBy = "none"

NoOpening == [percentages |-> <<>>, added |-> FALSE]

OpeningIdle ==
    /\ openingBody = <<>>
    /\ openingSummary = <<>>
    /\ factual_opening = NoOpening
    /\ openedBy = "none"

RerunIdle ==
    /\ randomSource = <<>>
    /\ firstRun = NoResult
    /\ rerunDiffers = {}
    /\ runs = 0

NoSweep == [at |-> 0, before |-> {}, after |-> {}]

TaskIdle ==
    /\ apiRevision = "none"
    /\ summarizerLoaded = FALSE
    /\ now = 0
    /\ task_results = {}
    /\ background = {}
    /\ ended = {}
    /\ httpLog = <<>>
    /\ lastSweep = NoSweep

NoParagraph == [kind |-> "none", parts |-> <<>>, text |-> <<>>]

ParagraphIdle ==
    /\ paraMode = "none"
    /\ paraCategory = "none"
    /\ paraSentiment = "none"
    /\ paraSummary = <<>>
    /\ paraKeySentences = <<>>
    /\ paraFeatures = {}
    /\ paraDraws = <<>>
    /\ paragraph = NoParagraph
    /\ assembledBy = "none"

LaterIdle == ContextIdle /\ OpeningIdle /\ RerunIdle /\ TaskIdle /\ ParagraphIdle

InitChunk == ChunkInputs /\ SummaryIdle /\ TitleIdle /\ HashIdle /\ PipeIdle /\ LaterIdle

RunChunkTextCore ==
    /\ chunkedBy = "none"
    /\ pipelinedBy = "none"
    /\ chunks' = ChunkTextCore(sentences, tokensPerWord, max_chunk_tokens)
    /\ chunkedBy' = "core"
    /\ UNCHANGED <<sentences, tokensPerWord, max_chunk_tokens,
                   summaryVars, titleVars, hashVars, pipeVars, laterVars>>

RunChunkTextLegacy ==
    /\ chunkedBy = "none"
    /\ pipelinedBy = "none"
    /\ chunks' = ChunkTextLegacy(sentences, tokensPerWord, max_chunk_tokens)
    /\ chunkedBy' = "legacy"
    /\ UNCHANGED <<sentences, tokensPerWord, max_chunk_tokens,
                   summaryVars, titleVars, hashVars, pipeVars, laterVars>>

NextChunk == RunChunkTextCore \/ RunChunkTextLegacy

SpecChunk == InitChunk /\ [][NextChunk]_vars

(***************************************************************************)
(* C1 -- Chunking coverage: for a non-empty body, the chunks returned by   *)
(* _chunk_text, concatenated in order, hold every sentence of the body     *)
(* exactly once and in the original order.                                 *)
(***************************************************************************)
ChunkingCoverage ==
    (chunkedBy # "none" /\ sentences # <<>>) =>
        Flatten(chunks) = Positions(sentences)

\* a sentence that alone exceeds the budget has become a chunk of its own,
\* between other chunks, in the sentence loop of either revision
ChunkingCoverageWitness ==
    /\ chunkedBy # "none"
    /\ Len(chunks) = 3
    /\ EstimatedTenths(sentences[2]) > 10 * max_chunk_tokens
    /\ ExactTokens(sentences[2], tokensPerWord) > max_chunk_tokens
    /\ chunks[2] = <<2>>

(***************************************************************************)
(* C2 -- Chunk budget, as claimed: every chunk returned by _chunk_text has *)
(* an estimated token count <= max_chunk_tokens, except a chunk that       *)
(* consists of exactly one sentence which alone exceeds the budget.        *)
(***************************************************************************)
ChunkEstimateWithinBudget ==
    chunkedBy # "none" =>
        \A k \in 1..Len(chunks) :
            \/ EstimatedTenths(ChunkWords(sentences, chunks[k])) <= 10 * max_chunk_tokens
            \/ /\ Len(chunks[k]) = 1
               /\ EstimatedTenths(sentences[chunks[k][1]]) > 10 * max_chunk_tokens

(***************************************************************************)
(* C2 -- Chunk budget, amended: every chunk of two or more sentences fits  *)
(* max_chunk_tokens by the count that admitted it: the exact tokenizer     *)
(* count when the core revision returns the whole text early and in the    *)
(* legacy revision, the estimated count in the core revision's sentence    *)
(* loop.                                                                   *)
(***************************************************************************)
ChunkFitsAdmittingCount(c) ==
    LET words == ChunkWords(sentences, c) IN
    IF chunkedBy = "legacy" \/ FitsExactly(sentences, tokensPerWord, max_chunk_tokens)
    THEN ExactTokens(words, tokensPerWord) <= max_chunk_tokens
    ELSE EstimatedTenths(words) <= 10 * max_chunk_tokens

ChunkWithinAdmittingBudget ==
    chunkedBy # "none" =>
        \A k \in 1..Len(chunks) : Len(chunks[k]) # 1 => ChunkFitsAdmittingCount(chunks[k])

\* the core revision returned a body of several sentences early: its exact
\* count fits while its estimate does not
ChunkWithinAdmittingBudgetWitness ==
    /\ chunkedBy = "core"
    /\ Len(sentences) >= 2
    /\ chunks = << Positions(sentences) >>
    /\ FitsExactly(sentences, tokensPerWord, max_chunk_tokens)
    /\ EstimatedTenths(SumSeq(sentences)) > 10 * max_chunk_tokens

(***************************************************************************)
(* C18 -- Empty input yields an empty chunk list: _chunk_text returns []   *)
(* for an empty text, and no chunk of any list it returns is empty.        *)
(***************************************************************************)
NoEmptyChunk ==
    chunkedBy # "none" =>
        /\ sentences = <<>> => chunks = <<>>
        /\ \A k \in 1..Len(chunks) : chunks[k] # <<>>

(***************************************************************************)
(* C19 -- Greedy chunking, as claimed: for every two consecutive chunks,   *)
(* the estimated token count of the earlier chunk plus that of the first   *)
(* sentence of the later chunk exceeds max_chunk_tokens.                   *)
(***************************************************************************)
ClosedOnEstimatedOverflow ==
    chunkedBy # "none" =>
        \A k \in 1..(Len(chunks) - 1) :
            EstimatedTenths(ChunkWords(sentences, chunks[k]))
              + EstimatedTenths(sentences[chunks[k + 1][1]]) > 10 * max_chunk_tokens

(***************************************************************************)
(* C19 -- Greedy chunking, amended: for every two consecutive chunks, the  *)
(* earlier chunk extended by the first sentence of the later chunk exceeds *)
(* max_chunk_tokens by the count the revision admits sentences with: the   *)
(* estimate in the core revision, the exact tokenizer count in the legacy  *)
(* revision.                                                               *)
(***************************************************************************)
ClosedOnAdmittingOverflow ==
    chunkedBy # "none" =>
        \A k \in 1..(Len(chunks) - 1) :
            LET extended == chunks[k] \o <<chunks[k + 1][1]>> IN
            IF chunkedBy = "legacy"
            THEN ExactTokens(ChunkWords(sentences, extended), tokensPerWord) > max_chunk_tokens
            ELSE EstimatedTenths(ChunkWords(sentences, extended)) > 10 * max_chunk_tokens

\* the legacy revision has closed a chunk of two sentences at a sentence that
\* the estimate would still have admitted
ClosedOnAdmittingOverflowWitness ==
    /\ chunkedBy = "legacy"
    /\ Len(chunks) >= 2
    /\ Len(chunks[1]) = 2
    /\ EstimatedTenths(ChunkWords(sentences, chunks[1]))
         + EstimatedTenths(sentences[chunks[2][1]]) <= 10 * max_chunk_tokens

(***************************************************************************)
(* The summary orchestrator as a state machine: a body, a budget and the   *)
(* answers of the summarization service are given, one of the two          *)
(* _generate_base_summary revisions runs on them.                          *)
(***************************************************************************)
InitSummary ==
    /\ ChunkInputs
    /\ charsPerWord \in CharsPerWordChoices
    /\ calls = <<>>
    /\ summary = NoSummary
    /\ summarizedBy = "none"
    /\ TitleIdle /\ HashIdle /\ PipeIdle /\ LaterIdle

\* the calls a run can make: one per batch and the final one
CallSlotsCore ==
    LET cs == ChunkTextCore(sentences, tokensPerWord, max_chunk_tokens) IN
    IF Len(cs) <= 1 THEN 1 ELSE Len(BatchesCore(sentences, cs, max_chunk_tokens)) + 1
CallSlotsLegacy ==
    LET cs == ChunkTextLegacy(sentences, tokensPerWord, max_chunk_tokens) IN
    IF Len(cs) <= 1 THEN 1 ELSE Len(cs) + 1

RunGenerateBaseSummaryCore ==
    /\ summarizedBy = "none"
    /\ chunkedBy = "none"
    /\ pipelinedBy = "none"
    /\ \E responses \in ServiceRuns(CallSlotsCore) :
         LET r == GenerateBaseSummaryCore(sentences, tokensPerWord, max_chunk_tokens,
                                          charsPerWord, responses)
         IN /\ summary' = [origin |-> r.origin, text |-> r.text, parts |-> r.parts]
            /\ calls' = r.calls
    /\ chunks' = ChunkTextCore(sentences, tokensPerWord, max_chunk_tokens)
    /\ chunkedBy' = "core"
    /\ summarizedBy' = "core"
    /\ UNCHANGED <<sentences, tokensPerWord, max_chunk_tokens, charsPerWord,
                   titleVars, hashVars, pipeVars, laterVars>>

RunGenerateBaseSummaryLegacy ==
    /\ summarizedBy = "none"
    /\ chunkedBy = "none"
    /\ pipelinedBy = "none"
    /\ \E responses \in ServiceRuns(CallSlotsLegacy) :
         LET r == GenerateBaseSummaryLegacy(sentences, tokensPerWord, max_chunk_tokens,
                                            charsPerWord, responses)
         IN /\ summary' = [origin |-> r.origin, text |-> r.text, parts |-> r.parts]
            /\ calls' = r.calls
    /\ chunks' = ChunkTextLegacy(sentences, tokensPerWord, max_chunk_tokens)
    /\ chunkedBy' = "legacy"
    /\ summarizedBy' = "legacy"
    /\ UNCHANGED <<sentences, tokensPerWord, max_chunk_tokens, charsPerWord,
                   titleVars, hashVars, pipeVars, laterVars>>

NextSummary == RunGenerateBaseSummaryCore \/ RunGenerateBaseSummaryLegacy

SpecSummary == InitSummary /\ [][NextSummary]_vars

\* the calls made for the batches, without the final call on the combined text
BatchCalls == SelectSeq(calls, LAMBDA c : c.what = "chunk")
AllCallsRaised == \A k \in 1..Len(calls) : ~calls[k].ok

(***************************************************************************)
(* C8 -- Scenario C: when every call of the summarization service raises,  *)
(* _generate_base_summary returns a non-empty abstract for a non-empty     *)
(* body, made only of bounded prefixes of the source chunks, for one chunk *)
(* or several and when the final call on the combined text fails too.      *)
(***************************************************************************)
FallbackAbstractNonEmpty ==
    (summarizedBy # "none" /\ sentences # <<>> /\ AllCallsRaised) =>
        /\ calls # <<>>
        /\ summary.text.chars > 0
        /\ summary.parts # <<>>
        /\ \A k \in 1..Len(summary.parts) :
             LET part == summary.parts[k] IN
             /\ part.src = "source"
             /\ part.text.chars > 0
             /\ part.text.chars <= SingleChunkFallbackChars
             /\ part.text.chars <= ChunkText(sentences, part.of, charsPerWord).chars
        /\ summary.text.chars <= JoinTexts(PartTexts(summary.parts)).chars
        /\ PartSources(summary.parts) = Positions(sentences)

\* four batches and the final call all raised; the abstract is the head of
\* the joined chunk prefixes
FallbackAbstractNonEmptyWitness ==
    /\ summarizedBy = "core"
    /\ AllCallsRaised
    /\ Len(calls) = 5
    /\ summary.origin = "combined_prefix"
    /\ summary.text.chars = 500

(***************************************************************************)
(* C9 -- Failure isolation: in a multi-chunk summarization every batch is  *)
(* sent to the service in order whatever the outcome of the calls before   *)
(* it; a failed batch contributes a bounded prefix of its own text, a      *)
(* successful one the service's output, and an abstract is returned.       *)
(***************************************************************************)
FailureIsolation ==
    (summarizedBy # "none" /\ Len(chunks) > 1) =>
        /\ Len(BatchCalls) = Len(summary.parts)
        /\ Flatten([k \in 1..Len(BatchCalls) |-> BatchCalls[k].input]) = Positions(sentences)
        /\ \A k \in 1..Len(BatchCalls) :
             LET part == summary.parts[k] IN
             /\ part.of = BatchCalls[k].input
             /\ BatchCalls[k] = calls[k]
             /\ BatchCalls[k].ok =>
                  /\ part.src = "service"
                  /\ part.text.words \in ServiceOutputWords
             /\ ~BatchCalls[k].ok =>
                  /\ part.src = "source"
                  /\ part.text.chars > 0
                  /\ part.text.chars <= SingleChunkFallbackChars
                  /\ part.text.chars <= ChunkText(sentences, part.of, charsPerWord).chars
        /\ summary.origin \in {"service", "combined", "combined_prefix"}
        /\ summary.text.chars > 0

\* the first batch failed and was cut, a later batch was still sent and succeeded
FailureIsolationWitness ==
    /\ summarizedBy # "none"
    /\ Len(BatchCalls) >= 3
    /\ ~BatchCalls[1].ok
    /\ summary.parts[1].text.chars < ChunkText(sentences, summary.parts[1].of, charsPerWord).chars
    /\ BatchCalls[3].ok
    /\ summary.parts[3].src = "service"

(***************************************************************************)
(* The title composer as a state machine: a text and max_title_words are   *)
(* given, one of the two revisions composes the title.                     *)
\* the calls a run made on the joined batch summaries
FinalCalls == {k \in 1..Len(calls) : calls[k].what = "combined"}

(***************************************************************************)
(* C24 -- final re-summarization: with more than one batch summary, one    *)
(* final call on their concatenation is made if and only if the            *)
(* concatenation exceeds the token budget; otherwise the concatenation is  *)
(* returned as it is and no further call is made.                          *)
(***************************************************************************)
FinalCallIffOverBudget ==
    (summarizedBy # "none" /\ Len(summary.parts) > 1) =>
        LET combined == JoinTexts(PartTexts(summary.parts)) IN
        IF ExactTokens(combined.words, tokensPerWord) > max_chunk_tokens
        THEN Cardinality(FinalCalls) = 1
        ELSE FinalCalls = {} /\ summary.text = combined

(***************************************************************************)
(* C25 -- single-chunk path: with exactly one chunk the summarization      *)
(* service is called exactly once; the text of a successful call is        *)
(* returned, and when the call raises the result is a prefix of the chunk  *)
(* of at most 500 characters, with no second call.                         *)
(***************************************************************************)
SingleChunkOneCall ==
    (summarizedBy # "none" /\ Len(chunks) = 1) =>
        /\ Len(calls) = 1
        /\ calls[1].input = chunks[1]
        /\ calls[1].ok => (summary.origin = "service" /\ summary.text.words \in ServiceOutputWords)
        /\ ~calls[1].ok =>
              /\ summary.text.chars <= 500
              /\ summary.text.chars <= ChunkText(sentences, chunks[1], charsPerWord).chars
              /\ summary.text = Prefix(ChunkText(sentences, chunks[1], charsPerWord),
                                       summary.text.chars, charsPerWord)

\* C25: a run with one chunk longer than 500 characters, whose call raised
SingleChunkOneCallWitness ==
    /\ summarizedBy # "none"
    /\ Len(chunks) = 1
    /\ Len(calls) = 1
    /\ ~calls[1].ok
    /\ ChunkText(sentences, chunks[1], charsPerWord).chars > 500
    /\ summary.text.chars = 500

(***************************************************************************)
InitTitle ==
    /\ titleText \in SeqsUpTo(TitleWords, MaxTitleTextWords)
    /\ max_title_words \in 0..MaxTitleWords
    /\ title = <<>>
    /\ titledBy = "none"
    /\ ChunkIdle /\ SummaryIdle /\ HashIdle /\ PipeIdle /\ LaterIdle

RunGenerateShortTitleCore ==
    /\ titledBy = "none"
    /\ title' = GenerateShortTitleCore(titleText, max_title_words)
    /\ titledBy' = "core"
    /\ UNCHANGED <<titleText, max_title_words, chunkVars, summaryVars, hashVars, pipeVars, laterVars>>

RunGenerateShortTitleLegacy ==
    /\ titledBy = "none"
    /\ title' = GenerateShortTitleLegacy(titleText, max_title_words)
    /\ titledBy' = "legacy"
    /\ UNCHANGED <<titleText, max_title_words, chunkVars, summaryVars, hashVars, pipeVars, laterVars>>

NextTitle == RunGenerateShortTitleCore \/ RunGenerateShortTitleLegacy

SpecTitle == InitTitle /\ [][NextTitle]_vars

(***************************************************************************)
(* C3 -- Title bound: the composed title has at most max_title_words       *)
(* words, on every path: scored selection, first-words fallback and the    *)
(* fixed default title.                                                    *)
(***************************************************************************)
TitleWithinBound ==
    titledBy # "none" => Len(title) <= max_title_words

(***************************************************************************)
(* C4 -- The title composer never returns an empty string, whatever the    *)
(* text (empty, only filler words, only punctuation) and max_words.        *)
(***************************************************************************)
TitleNeverEmpty ==
    titledBy # "none" => title # <<>>

\* the score the revision that ran gives the word at i
TitleScore(i) ==
    IF titledBy = "core" THEN WordScoreTenthsCore(titleText, i)
    ELSE WordScoreLegacy(titleText, i)

\* the words that score positively
PositivelyScored ==
    {i \in (IF titledBy = "core" THEN ScoredIndicesCore(titleText) ELSE 1..Len(titleText)) :
        TitleScore(i) > 0}

\* the first max_title_words of them by (score descending, position ascending)
TopCandidates ==
    {i \in PositivelyScored :
        Cardinality({j \in PositivelyScored :
            \/ TitleScore(j) > TitleScore(i)
            \/ TitleScore(j) = TitleScore(i) /\ j < i}) < max_title_words}

(***************************************************************************)
(* C22 -- title selection: on the scored path (two or more words score     *)
(* positively) the title consists of exactly the top max_title_words       *)
(* candidates by (score descending, position ascending), in their order in *)
(* the source, so it is a subsequence of the source.                       *)
(***************************************************************************)
TitleIsTopCandidatesInSourceOrder ==
    (titledBy # "none" /\ Cardinality(PositivelyScored) >= 2) =>
        title = [k \in 1..Cardinality(TopCandidates) |->
                    titleText[Ascending(TopCandidates)[k]]]

(***************************************************************************)
(* C23 -- title fallback: when fewer than two words score positively, the  *)
(* title is the first max_title_words words of the source, as they are.    *)
(***************************************************************************)
TitleFallsBackToFirstWords ==
    (titledBy # "none" /\ Cardinality(PositivelyScored) < 2) =>
        title = SubSeq(titleText, 1, Min(max_title_words, Len(titleText)))

(***************************************************************************)
(* The hashtag generator as a state machine: a text and the bounds         *)
(* min_hashtags <= max_hashtags are given, one of the two revisions makes  *)
(* the list.                                                               *)
(***************************************************************************)
InitHashtags ==
    /\ hashText \in SeqsUpTo(HashWords, MaxHashTextWords)
    /\ max_hashtags \in 0..MaxHashtags
    /\ min_hashtags \in 0..max_hashtags
    /\ hashtags = <<>>
    /\ taggedBy = "none"
    /\ ChunkIdle /\ SummaryIdle /\ TitleIdle /\ PipeIdle /\ LaterIdle

RunGenerateHashtagsCore ==
    /\ taggedBy = "none"
    /\ hashtags' \in GenerateHashtagsCore(hashText, min_hashtags, max_hashtags)
    /\ taggedBy' = "core"
    /\ UNCHANGED <<hashText, min_hashtags, max_hashtags,
                   chunkVars, summaryVars, titleVars, pipeVars, laterVars>>

RunGenerateHashtagsLegacy ==
    /\ taggedBy = "none"
    /\ hashtags' = GenerateHashtagsLegacy(hashText, min_hashtags, max_hashtags)
    /\ taggedBy' = "legacy"
    /\ UNCHANGED <<hashText, min_hashtags, max_hashtags,
                   chunkVars, summaryVars, titleVars, pipeVars, laterVars>>

NextHashtags == RunGenerateHashtagsCore \/ RunGenerateHashtagsLegacy

SpecHashtags == InitHashtags /\ [][NextHashtags]_vars

(***************************************************************************)
(* C5 -- Hashtag bound: for min_hashtags <= max_hashtags the returned list *)
(* has at least min_hashtags and at most max_hashtags entries, and every   *)
(* entry starts with '#'.                                                  *)
(***************************************************************************)
HashtagCountWithinBounds ==
    taggedBy # "none" =>
        /\ min_hashtags <= Len(hashtags)
        /\ Len(hashtags) <= max_hashtags
        /\ \A k \in 1..Len(hashtags) : hashtags[k].prefix = "#"

(***************************************************************************)
(* C6 -- The returned list never holds the same hashtag twice, also after  *)
(* it was padded with generic hashtags to reach min_count.                 *)
(***************************************************************************)
NoDuplicateHashtags ==
    taggedBy # "none" =>
        \A i, j \in 1..Len(hashtags) : i # j => hashtags[i] # hashtags[j]

(***************************************************************************)
(* The pipeline as a state machine: a body is given, one of the two        *)
(* summarize_article revisions runs on it.  What the run reads of the body *)
(* beyond its sentences, and the answers of the two services, are chosen   *)
(* when it runs.                                                           *)
(***************************************************************************)
MinBodyChars == 100

InitPipeline ==
    /\ sentences \in PipelineBodies
    /\ rawBlank \in {b \in BOOLEAN : b => sentences = <<>>}
    /\ tokensPerWord = 1
    /\ max_chunk_tokens \in ChunkBudgets
    /\ charsPerWord \in CharsPerWordChoices
    /\ chunks = <<>>
    /\ chunkedBy = "none"
    /\ calls = <<>>
    /\ summary = NoSummary
    /\ summarizedBy = "none"
    /\ category_scores = <<>>
    /\ bullish_count = 0
    /\ bearish_count = 0
    /\ sentimentCalls = 0
    /\ result = NoResult
    /\ pipelinedBy = "none"
    /\ TitleIdle /\ HashIdle /\ LaterIdle

KeywordScores == [1..Len(Categories) -> 0..MaxKeywordHits]

RunSummarizeArticleCore ==
    /\ pipelinedBy = "none"
    /\ \E responses \in ServiceRuns(CallSlotsCore), scores \in KeywordScores,
          outcome \in SentimentOutcomes :
         LET r == SummarizeArticleCore(sentences, tokensPerWord, max_chunk_tokens,
                                       charsPerWord, responses, scores, outcome)
         IN /\ summary' = [origin |-> r.base.origin, text |-> r.base.text, parts |-> r.base.parts]
            /\ calls' = r.base.calls
            /\ sentimentCalls' = r.sentimentCalls
            /\ result' = r.result
            /\ category_scores' = scores
    /\ chunks' = ChunkTextCore(sentences, tokensPerWord, max_chunk_tokens)
    /\ chunkedBy' = "core"
    /\ summarizedBy' = "core"
    /\ pipelinedBy' = "core"
    /\ UNCHANGED <<sentences, tokensPerWord, max_chunk_tokens, charsPerWord, rawBlank,
                   bullish_count, bearish_count, titleVars, hashVars, laterVars>>

RunSummarizeArticleLegacy ==
    /\ pipelinedBy = "none"
    /\ \E responses \in ServiceRuns(CallSlotsLegacy), scores \in KeywordScores,
          bullish \in 0..MaxIndicatorHits, bearish \in 0..MaxIndicatorHits :
         LET r == SummarizeArticleLegacy(rawBlank, sentences, tokensPerWord, max_chunk_tokens,
                                         charsPerWord, responses, scores, bullish, bearish)
             reached == r.result.kind # "error"
         IN /\ summary' = [origin |-> r.base.origin, text |-> r.base.text, parts |-> r.base.parts]
            /\ calls' = r.base.calls
            /\ sentimentCalls' = r.sentimentCalls
            /\ result' = r.result
            /\ category_scores' = IF reached THEN scores ELSE <<>>
            /\ bullish_count' = IF reached THEN bullish ELSE 0
            /\ bearish_count' = IF reached THEN bearish ELSE 0
    /\ chunks' = IF rawBlank THEN <<>>
                 ELSE ChunkTextLegacy(sentences, tokensPerWord, max_chunk_tokens)
    /\ chunkedBy' = IF rawBlank THEN "none" ELSE "legacy"
    /\ summarizedBy' = IF rawBlank THEN "none" ELSE "legacy"
    /\ pipelinedBy' = "legacy"
    /\ UNCHANGED <<sentences, tokensPerWord, max_chunk_tokens, charsPerWord, rawBlank,
                   titleVars, hashVars, laterVars>>

NextPipeline == RunSummarizeArticleCore \/ RunSummarizeArticleLegacy

SpecPipeline == InitPipeline /\ [][NextPipeline]_vars

(***************************************************************************)
(* C7 -- Scenario B: when the body is missing or shorter than the minimum  *)
(* length after normalization, summarize_article returns an invalid-input  *)
(* error and calls neither the summarization nor the sentiment service.    *)
(***************************************************************************)
ShortBodyRejectedWithoutCalls ==
    (pipelinedBy # "none" /\ BodyChars(sentences, charsPerWord) < MinBodyChars) =>
        /\ result.kind = "error"
        /\ calls = <<>>
        /\ sentimentCalls = 0

(***************************************************************************)
(* C10 -- No exception escapes summarize_article: whatever the body, the   *)
(* answers of the services and the detected category and sentiment, it     *)
(* returns a result record or an error, and never raises.                  *)
(***************************************************************************)
NoExceptionEscapes ==
    pipelinedBy # "none" => result.kind \in {"record", "error"}

(***************************************************************************)
(* The category classifier as a state machine: a text and a summary are    *)
(* given, one of the two _analyze_story_context revisions classifies them. *)
(***************************************************************************)
(* C21 -- the sentiment that classification produces is, on every path,    *)
(* one of positive, negative and neutral, the keys of the tables that are  *)
(* looked up by sentiment.                                                 *)
(***************************************************************************)
SentimentIsAPolarity ==
    (pipelinedBy # "none" /\ result.kind \in {"record", "raised"}) =>
        result.sentiment \in {"positive", "negative", "neutral"}

(***************************************************************************)
ContextTexts == {t \in SUBSET ContextPhrases : Cardinality(t) <= MaxContextPhrases}
ContextSummaries == {t \in SUBSET ContextPhrases : Cardinality(t) <= 1}

InitClassify ==
    /\ contextText \in ContextTexts
    /\ contextSummary \in ContextSummaries
    /\ storyCategory = "none"
    /\ classifiedBy = "none"
    /\ ChunkIdle /\ SummaryIdle /\ TitleIdle /\ HashIdle /\ PipeIdle
    /\ OpeningIdle /\ RerunIdle /\ TaskIdle /\ ParagraphIdle

RunAnalyzeStoryContextCore ==
    /\ classifiedBy = "none"
    /\ storyCategory' = StoryTypeCore(CategoryScoresCore(CombinedText(contextText, contextSummary)))
    /\ classifiedBy' = "core"
    /\ UNCHANGED <<contextText, contextSummary, chunkVars, summaryVars, titleVars,
                   hashVars, pipeVars, openingVars, rerunVars, taskVars, paragraphVars>>

RunAnalyzeStoryContextLegacy ==
    /\ classifiedBy = "none"
    /\ storyCategory' = StoryTypeLegacy(CategoryScoresLegacy(CombinedText(contextText, contextSummary)))
    /\ classifiedBy' = "legacy"
    /\ UNCHANGED <<contextText, contextSummary, chunkVars, summaryVars, titleVars,
                   hashVars, pipeVars, openingVars, rerunVars, taskVars, paragraphVars>>

NextClassify == RunAnalyzeStoryContextCore \/ RunAnalyzeStoryContextLegacy

SpecClassify == InitClassify /\ [][NextClassify]_vars

\* the keyword matches of a category in the classified text and summary, by the
\* table of the revision that classified
MatchesOf(category) ==
    KeywordMatches(IF classifiedBy = "legacy" THEN KeywordsLegacy(category)
                   ELSE KeywordsCore(category),
                   CombinedText(contextText, contextSummary))

(***************************************************************************)
(* C11 -- Category fallback: when the text and the summary together hold   *)
(* no keyword of any category of the table, _analyze_story_context returns *)
(* the default category of its revision (market_general in the core        *)
(* revision, stock_movement in the legacy one), not an error and not       *)
(* another entry of the table.                                             *)
(***************************************************************************)
CategoryFallback ==
    (classifiedBy # "none" /\ \A k \in 1..Len(Categories) : MatchesOf(Categories[k]) = 0) =>
        storyCategory = IF classifiedBy = "core" THEN "market_general" ELSE "stock_movement"

\* a text that is not empty and holds no keyword has been classified
CategoryFallbackWitness ==
    /\ classifiedBy # "none"
    /\ contextText = {"weather"}
    /\ contextSummary = {"weather"}
    /\ \A k \in 1..Len(Categories) : MatchesOf(Categories[k]) = 0
    /\ storyCategory \in {"market_general", "stock_movement"}

InitOpening ==
    /\ openingBody \in SeqsUpTo(OpeningSentences, MaxOpeningSentences)
    /\ openingSummary \in SeqsUpTo([words : {8}, percentage : PercentValues],
                                   MaxOpeningSummarySentences)
    /\ factual_opening = NoOpening
    /\ openedBy = "none"
    /\ ChunkIdle /\ SummaryIdle /\ TitleIdle /\ HashIdle /\ PipeIdle
    /\ ContextIdle /\ RerunIdle /\ TaskIdle /\ ParagraphIdle

RunCreateFactualOpeningCore ==
    /\ openedBy = "none"
    /\ factual_opening' = CreateFactualOpeningCore(openingBody, openingSummary)
    /\ openedBy' = "core"
    /\ UNCHANGED <<openingBody, openingSummary, chunkVars, summaryVars, titleVars,
                   hashVars, pipeVars, contextVars, rerunVars, taskVars, paragraphVars>>

RunCreateFactualOpeningLegacy ==
    /\ openedBy = "none"
    /\ factual_opening' = CreateFactualOpeningLegacy(openingSummary,
                                                     ExtractPercentagesLegacy(openingBody))
    /\ openedBy' = "legacy"
    /\ UNCHANGED <<openingBody, openingSummary, chunkVars, summaryVars, titleVars,
                   hashVars, pipeVars, contextVars, rerunVars, taskVars, paragraphVars>>

NextOpening == RunCreateFactualOpeningCore \/ RunCreateFactualOpeningLegacy

SpecOpening == InitOpening /\ [][NextOpening]_vars

(***************************************************************************)
(* C12 -- Scenario D: when key-fact extraction finds a percentage in the   *)
(* body and the leading one does not occur in the model summary, the       *)
(* factual opening holds that percentage; when it occurs in the summary it *)
(* is not added a second time.                                             *)
(***************************************************************************)
OpeningHoldsLeadingPercentage ==
    openedBy # "none" =>
        LET found == IF openedBy = "legacy" THEN ExtractPercentagesLegacy(openingBody)
                     ELSE ExtractPercentagesCore(openingBody)
        IN found # <<>> =>
             IF PercentageOccurs(found[1], PercentagesOf(openingSummary))
             THEN ~factual_opening.added
             ELSE PercentageOccurs(found[1], factual_opening.percentages)

(***************************************************************************)
(* Two runs of the core summarize_article on the same title, body and      *)
(* configuration, with the same answers of the models and the same values  *)
(* of the random source.  What a run reads: the tokens of the body (for    *)
(* the hashtags), the base summary (for the title) and the random source.  *)
(* The order of list(set(...)) is not fixed by any of them: it follows the *)
(* hashes of the strings, which the interpreter seeds anew in each process.*)
(***************************************************************************)
MaxRerunHashtags == 2
RandomDraws == 1
RerunSummaries == {<<>>, <<"Apple", "surges", "50%">>}

\* base_hashtags, as the list random.choice indexes
BaseHashtagListCore ==
    <<Tag("News"), Tag("Finance"), Tag("Trading"), Tag("Market"), Tag("Investment")>>

\* transitions of _get_professional_transition
ProfessionalTransitionsCore ==
    <<"From a technical standpoint, we're seeing",
      "From a trading perspective, this signals",
      "Looking at the charts, we're observing",
      "From a market structure standpoint, we're seeing",
      "Technically speaking, this indicates">>

\* the k-th value of the random source: an index into a list of five
\* (the values are used again from the first when the list is used up)
Draw(draws, k) == draws[((k - 1) % Len(draws)) + 1]

\* set(hashtags): the hashtags of the kept relevant words and the base ones
UniqueHashtagsCore(text) ==
    LET relevant_words == SelectSeq(text, LAMBDA w : w \in FinancialKeywordsCore)
        kept == SubSeq(relevant_words, 1, Min(RelevantWordsKept, Len(relevant_words)))
    IN {HashtagOf(kept[k]) : k \in 1..Len(kept)} \cup BaseHashtagsCore

\* while len(hashtags) < min_count: hashtags.append(random.choice(base_hashtags)),
\* with the values of the source from the used-th on
RECURSIVE PaddedFromCore(_, _, _, _)
PaddedFromCore(tags, min_count, draws, used) ==
    IF Len(tags) >= min_count THEN [tags |-> tags, used |-> used]
    ELSE PaddedFromCore(Append(tags, BaseHashtagListCore[Draw(draws, used + 1)]),
                        min_count, draws, used + 1)

\* components of _generate_journalistic_paragraph, none of them empty
ParagraphPartsCore ==
    <<"factual_opening", "transition", "trading_analysis", "actionable_insights">>

\* what summarize_article returns when list(set(hashtags))[:max_count] is `first`:
\* generate_hashtags draws before _get_professional_transition does
SummarizeArticleOutputsCore(min_count, summary_, max_words, draws, first) ==
    LET padded == PaddedFromCore(first, min_count, draws, 0)
    IN [kind |-> "returned",
        title |-> GenerateShortTitleCore(summary_, max_words),
        hashtags |-> padded.tags,
        parts |-> ParagraphPartsCore,
        transition |-> ProfessionalTransitionsCore[Draw(draws, padded.used + 1)]]

RerunOutputs == {"title", "hashtags", "parts", "transition"}

InitRerun ==
    /\ hashText \in SeqsUpTo(HashWords, MaxHashTextWords)
    /\ max_hashtags \in 1..MaxRerunHashtags
    /\ min_hashtags \in 0..max_hashtags
    /\ hashtags = <<>>
    /\ taggedBy = "none"
    /\ titleText \in RerunSummaries
    /\ max_title_words = MaxTitleWords
    /\ title = <<>>
    /\ titledBy = "none"
    /\ randomSource \in [1..RandomDraws -> 1..Len(ProfessionalTransitionsCore)]
    /\ firstRun = NoResult
    /\ rerunDiffers = {}
    /\ runs = 0
    /\ ChunkIdle /\ SummaryIdle /\ PipeIdle /\ ContextIdle /\ OpeningIdle /\ TaskIdle /\ ParagraphIdle

\* the first run
RunSummarizeArticleFirst ==
    /\ runs = 0
    /\ \E first \in Arrangements(UniqueHashtagsCore(hashText),
                                  Min(max_hashtags, Cardinality(UniqueHashtagsCore(hashText)))) :
         firstRun' = SummarizeArticleOutputsCore(min_hashtags, titleText, max_title_words,
                                                 randomSource, first)
    /\ runs' = 1
    /\ UNCHANGED <<randomSource, rerunDiffers, chunkVars, summaryVars, titleVars, hashVars,
                   pipeVars, contextVars, openingVars, taskVars, paragraphVars>>

\* the second run, the random source set back to where the first run began
RunSummarizeArticleAgain ==
    /\ runs = 1
    /\ \E first \in Arrangements(UniqueHashtagsCore(hashText),
                                  Min(max_hashtags, Cardinality(UniqueHashtagsCore(hashText)))) :
         LET again == SummarizeArticleOutputsCore(min_hashtags, titleText, max_title_words,
                                                  randomSource, first)
         IN rerunDiffers' = {output \in RerunOutputs : again[output] # firstRun[output]}
    /\ runs' = 2
    /\ UNCHANGED <<randomSource, firstRun, chunkVars, summaryVars, titleVars, hashVars,
                   pipeVars, contextVars, openingVars, taskVars, paragraphVars>>

NextRerun == RunSummarizeArticleFirst \/ RunSummarizeArticleAgain

SpecRerun == InitRerun /\ [][NextRerun]_vars

(***************************************************************************)
(* C13 -- two runs of summarize_article on the same title, body and        *)
(* configuration, with the same model outputs and the same sequence of     *)
(* random choices, return the same title, the same hashtags in the same    *)
(* order and the same paragraph.                                           *)
(***************************************************************************)
RerunReturnsTheSame == runs = 2 => rerunDiffers = {}

(***************************************************************************)
(* The task API (POST /summarize, GET /task/{task_id}, the background      *)
(* process_summarization and the hourly cleanup_old_tasks) in its two      *)
(* revisions.  task_results is the set of its records, one for a task id;  *)
(* a record is its status and created_at.  Time is in hours.  Every        *)
(* handler is a coroutine that does not await between its first and last   *)
(* statement, so it is one step; process_summarization starts after the    *)
(* response of its request was sent, any time later.                       *)
(***************************************************************************)
TaskMaxAgeHours == 24
MaxClock == 25
MaxResponses == 3
ClockSteps == {12, 13}
Credentials == {"missing", "invalid", "valid"}
TaskTitles == {"Apple surges", "Fed holds rates"}

NoTaskId == [uuid |-> 0, title |-> "", serial |-> 0]
\* str(uuid.uuid5(uuid.NAMESPACE_URL, title)): a function of the title
TaskIdLegacy(title_) == [uuid |-> 5, title |-> title_, serial |-> 0]
\* str(uuid.uuid4()): an id not issued before
TaskIdCore(issued) == [uuid |-> 4, title |-> "", serial |-> issued + 1]

\* verify_api_key
VerifyApiKey(credential) == credential = "valid"

HasTask(store, task_id) == \E r \in store : r.task_id = task_id
TaskOf(store, task_id) == CHOOSE r \in store : r.task_id = task_id
\* task_results[task_id] = record
WithTask(store, record) == {r \in store : r.task_id # record.task_id} \cup {record}

\* the record POST /summarize stores: request stands for the title and text of
\* the submission kept in it; summary is the submission the stored summary was
\* made from, 0 when the record has none
NewTask(task_id, clock, request) ==
    [task_id |-> task_id, status |-> "pending", created_at |-> clock, request |-> request,
     summary |-> 0, error |-> FALSE, processing_time |-> FALSE]

\* the requests POST /summarize has accepted
Accepted(log) == {k \in 1..Len(log) : log[k].request = "POST" /\ log[k].code = 200}

Response(request, code, task_id, status) ==
    [request |-> request, code |-> code, task_id |-> task_id, status |-> status]

\* POST /summarize with the record stored before the summarizer is looked at
PostSummarizeStoreFirst(revision, loaded, store, scheduled, clock, credential, title_, issued) ==
    LET task_id == IF revision = "legacy" THEN TaskIdLegacy(title_) ELSE TaskIdCore(issued)
        record == NewTask(task_id, clock, issued + 1)
    IN IF ~VerifyApiKey(credential)
       THEN [response |-> Response("POST", 401, NoTaskId, "none"),
             store |-> store, background |-> scheduled]
       ELSE IF ~loaded
       THEN [response |-> Response("POST", 503, NoTaskId, "none"),
             store |-> WithTask(store, record), background |-> scheduled]
       ELSE [response |-> Response("POST", 200, task_id, "pending"),
             store |-> WithTask(store, record),
             background |-> scheduled \cup {[task_id |-> task_id, request |-> issued + 1]}]

\* POST /summarize: the response, the store and the scheduled background runs
PostSummarize(revision, loaded, store, scheduled, clock, credential, title_, issued) ==
    LET task_id == IF revision = "legacy" THEN TaskIdLegacy(title_) ELSE TaskIdCore(issued)
        record == NewTask(task_id, clock, issued + 1)
    IN IF ~VerifyApiKey(credential)
       THEN [response |-> Response("POST", 401, NoTaskId, "none"),
             store |-> store, background |-> scheduled]
       ELSE IF ~loaded
       THEN [response |-> Response("POST", 503, NoTaskId, "none"),
             store |-> store, background |-> scheduled]
       ELSE [response |-> Response("POST", 200, task_id, "pending"),
             store |-> WithTask(store, record),
             background |-> scheduled \cup {[task_id |-> task_id, request |-> issued + 1]}]

\* GET /task/{task_id}
GetTaskStatus(store, credential, task_id) ==
    IF ~VerifyApiKey(credential) THEN Response("GET", 401, NoTaskId, "none")
    ELSE IF ~HasTask(store, task_id) THEN Response("GET", 404, NoTaskId, "none")
    ELSE Response("GET", 200, task_id, TaskOf(store, task_id).status)

\* one sweep that also removes the records aged exactly TaskMaxAgeHours
CleanupOldTasksFromMaxAge(store, current_time) ==
    LET expired_tasks == {r \in store : current_time - r.created_at >= TaskMaxAgeHours}
    IN store \ expired_tasks

\* one sweep of cleanup_old_tasks
CleanupOldTasks(store, current_time) ==
    LET expired_tasks == {r \in store : current_time - r.created_at > TaskMaxAgeHours}
    IN store \ expired_tasks

\* process_summarization: the store it leaves and how it ended.  The first
\* statement is outside the try and raises KeyError when the record is gone.
ProcessSummarization(store, run, returns) ==
    IF ~HasTask(store, run.task_id) THEN [store |-> store, outcome |-> "raised"]
    ELSE LET processing == [TaskOf(store, run.task_id) EXCEPT !.status = "processing"]
             final == IF returns
                      THEN [processing EXCEPT !.status = "completed",
                                              !.summary = run.request,
                                              !.processing_time = TRUE]
                      ELSE [processing EXCEPT !.status = "failed", !.error = TRUE]
         IN [store |-> WithTask(store, final),
             outcome |-> IF returns THEN "completed" ELSE "failed"]

InitTasks ==
    /\ apiRevision \in {"core", "legacy"}
    /\ summarizerLoaded \in BOOLEAN
    /\ now = 0
    /\ task_results = {}
    /\ background = {}
    /\ ended = {}
    /\ httpLog = <<>>
    /\ lastSweep = NoSweep
    /\ ChunkIdle /\ SummaryIdle /\ TitleIdle /\ HashIdle /\ PipeIdle
    /\ ContextIdle /\ OpeningIdle /\ RerunIdle /\ ParagraphIdle

HandlePostSummarize ==
    /\ apiRevision # "none"
    /\ Len(httpLog) < MaxResponses
    /\ \E credential \in Credentials, title_ \in TaskTitles :
         LET r == PostSummarize(apiRevision, summarizerLoaded, task_results, background, now,
                                credential, title_, Cardinality(Accepted(httpLog)))
         IN /\ task_results' = r.store
            /\ background' = r.background
            /\ httpLog' = Append(httpLog, r.response)
    /\ UNCHANGED <<apiRevision, summarizerLoaded, now, ended, lastSweep, chunkVars, summaryVars,
                   titleVars, hashVars, pipeVars, contextVars, openingVars, rerunVars, paragraphVars>>

HandleGetTaskStatus ==
    /\ apiRevision # "none"
    /\ Len(httpLog) < MaxResponses
    /\ \E credential \in Credentials, k \in Accepted(httpLog) :
         httpLog' = Append(httpLog, GetTaskStatus(task_results, credential, httpLog[k].task_id))
    /\ UNCHANGED <<apiRevision, summarizerLoaded, now, task_results, background, ended,
                   lastSweep, chunkVars, summaryVars, titleVars, hashVars, pipeVars,
                   contextVars, openingVars, rerunVars, paragraphVars>>

RunProcessSummarization ==
    /\ \E run \in background, returns \in BOOLEAN :
         LET r == ProcessSummarization(task_results, run, returns)
         IN /\ task_results' = r.store
            /\ ended' = IF r.outcome = "raised" THEN ended \cup {run.task_id} ELSE ended
            /\ background' = background \ {run}
    /\ UNCHANGED <<apiRevision, summarizerLoaded, now, httpLog, lastSweep, chunkVars,
                   summaryVars, titleVars, hashVars, pipeVars, contextVars, openingVars,
                   rerunVars, paragraphVars>>

RunCleanupOldTasks ==
    /\ apiRevision # "none"
    /\ task_results' = CleanupOldTasks(task_results, now)
    /\ lastSweep' = [at |-> now, before |-> task_results, after |-> task_results']
    /\ UNCHANGED <<apiRevision, summarizerLoaded, now, background, ended, httpLog, chunkVars,
                   summaryVars, titleVars, hashVars, pipeVars, contextVars, openingVars,
                   rerunVars, paragraphVars>>

TimePasses ==
    /\ apiRevision # "none"
    /\ \E step \in ClockSteps :
         /\ now + step <= MaxClock
         /\ now' = now + step
    /\ UNCHANGED <<apiRevision, summarizerLoaded, task_results, background, ended, httpLog,
                   lastSweep, chunkVars, summaryVars, titleVars, hashVars, pipeVars,
                   contextVars, openingVars, rerunVars, paragraphVars>>

NextTasks ==
    \/ HandlePostSummarize
    \/ HandleGetTaskStatus
    \/ RunProcessSummarization
    \/ RunCleanupOldTasks
    \/ TimePasses

SpecTasks == InitTasks /\ [][NextTasks]_vars

\* pending, then processing, then completed or failed
StatusRank(status) ==
    CASE status = "pending" -> 1
      [] status = "processing" -> 2
      [] OTHER -> 3

\* the responses that show the status of a task
Observed(log) == {k \in 1..Len(log) : log[k].code = 200}

(***************************************************************************)
(* C14 -- task lifecycle: the status observed for a task id, in the        *)
(* responses to its submission and to the polls, never moves backwards,    *)
(* and completed and failed are never changed again.                       *)
(***************************************************************************)
ObservedStatusMovesForward ==
    \A i, j \in Observed(httpLog) :
        (i < j /\ httpLog[i].task_id = httpLog[j].task_id) =>
            /\ StatusRank(httpLog[i].status) <= StatusRank(httpLog[j].status)
            /\ httpLog[i].status \in {"completed", "failed"} =>
                   httpLog[j].status = httpLog[i].status

(***************************************************************************)
(* C15 -- process_summarization never raises, whatever the cleanup sweep   *)
(* or another submission did to the task record before it started.         *)
(***************************************************************************)
ProcessSummarizationNeverRaises == ended = {}

(***************************************************************************)
(* C16 -- a POST /summarize request answered 401 or 503 leaves the task    *)
(* store unchanged and schedules no background summarization.              *)
(***************************************************************************)
RejectedPostChangesNothing ==
    [][(/\ Len(httpLog') = Len(httpLog) + 1
        /\ httpLog'[Len(httpLog')].request = "POST"
        /\ httpLog'[Len(httpLog')].code \in {401, 503})
       => UNCHANGED <<task_results, background>>]_vars

\* C16: a submission is rejected with 401 while the store holds a record and
\* a background run is scheduled
RejectedPostChangesNothingWitness ==
    /\ Len(httpLog) >= 2
    /\ httpLog[Len(httpLog)].request = "POST"
    /\ httpLog[Len(httpLog)].code = 401
    /\ httpLog[Len(httpLog) - 1].request = "POST"
    /\ httpLog[Len(httpLog) - 1].code = 200
    /\ task_results # {}
    /\ background # {}

(***************************************************************************)
(* C17 -- one cleanup sweep removes exactly the records whose age exceeds  *)
(* 24 hours and leaves every other record as it was; a record younger than *)
(* 24 hours is never removed by a sweep.                                   *)
(***************************************************************************)
SweepRemovesExactlyTheExpired ==
    /\ lastSweep.after =
           {r \in lastSweep.before : ~(lastSweep.at - r.created_at > 24)}
    /\ \A r \in lastSweep.before : lastSweep.at - r.created_at < 24 => r \in lastSweep.after

\* C17: a sweep has removed one record and kept another
SweepRemovesExactlyTheExpiredWitness ==
    /\ lastSweep.before \ lastSweep.after # {}
    /\ lastSweep.after # {}

(***************************************************************************)
(* C29 -- two accepted submissions never share a task record: they are     *)
(* given different task ids, also when they carry the same title, and the  *)
(* summary a record holds, the one a poll of its task id reports, was made *)
(* from the submission the record was stored for.                          *)
(***************************************************************************)
SubmissionsShareNoRecord ==
    /\ \A i, j \in Accepted(httpLog) :
         i # j => httpLog[i].task_id # httpLog[j].task_id
    /\ \A r \in task_results : r.summary # 0 => r.summary = r.request

(***************************************************************************)
(* C30 -- in every state of the task store a completed record has a        *)
(* summary and a processing time and no error, a failed record has an      *)
(* error and no summary, and a pending or processing record has neither a  *)
(* summary nor an error.                                                   *)
(***************************************************************************)
TaskRecordsConsistent ==
    \A r \in task_results :
        /\ r.status = "completed" => (r.summary # 0 /\ r.processing_time /\ ~r.error)
        /\ r.status = "failed" => (r.error /\ r.summary = 0)
        /\ r.status \in {"pending", "processing"} => (r.summary = 0 /\ ~r.error)

(***************************************************************************)
(* The paragraph assembler.  A string is the sequence of its characters,   *)
(* each taken by its class: "w" is a character of a word, " " a blank, "." *)
(* a period, "!" and "?" themselves, and a decorative marker is named      *)
(* ("rocket" is the rocket emoji).  A fragment of a template is written    *)
(* Fragment, two words and the blank between them, whatever its length.    *)
(***************************************************************************)
TerminalPunctuation == {".", "!", "?"}
Fragment == <<"w", " ", "w">>

\* the pools GEN_Z_TRADING_VOCABULARY['emojis'] of the two revisions
EmojisLegacy ==
    [positive |-> <<"rocket", "chart_up", "fire", "gem", "target", "hundred">>,
     negative |-> <<"chart_down", "weary", "money_wings", "zap", "red_circle">>,
     neutral |-> <<"eyes", "alarm_clock", "bar_chart", "monocle", "scales">>]
EmojisCore ==
    [positive |-> <<"rocket", "chart_up", "fire", "gem", "target", "hundred", "dvd",
                    "money_mouth", "brain", "check">>,
     negative |-> <<"chart_down", "weary", "money_wings", "zap", "red_circle", "skull",
                    "sob", "hole", "dizzy">>,
     neutral |-> <<"eyes", "alarm_clock", "bar_chart", "monocle", "scales", "thinking",
                   "shrug", "calendar", "magnifier">>]
\* the markers _assemble_structured_paragraph looks for in the insights
AssembleMarkersLegacy ==
    {"rocket", "chart_up", "fire", "gem", "chart_down", "weary", "money_wings", "zap",
     "eyes", "alarm_clock", "bar_chart", "monocle", "scales"}

Range(s) == {s[i] : i \in 1..Len(s)}
Polarities == {"positive", "negative", "neutral"}
Markers(pools) == UNION {Range(pools[p]) : p \in Polarities}

EndsWith(s, c) == s # <<>> /\ s[Len(s)] = c
HasRun(s, c) == \E i \in 1..(Len(s) - 1) : s[i] = c /\ s[i + 1] = c

\* sep.join(texts)
RECURSIVE JoinWith(_, _)
JoinWith(texts, sep) ==
    IF texts = <<>> THEN <<>>
    ELSE IF Len(texts) = 1 THEN texts[1]
    ELSE texts[1] \o sep \o JoinWith(Tail(texts), sep)

\* s.strip()
RECURSIVE LStrip(_)
LStrip(s) == IF s # <<>> /\ Head(s) = " " THEN LStrip(Tail(s)) ELSE s
RECURSIVE RStrip(_)
RStrip(s) == IF s # <<>> /\ s[Len(s)] = " " THEN RStrip(SubSeq(s, 1, Len(s) - 1)) ELSE s
Strip(s) == RStrip(LStrip(s))

\* re.sub(c c+, c, s) and re.sub(c+, c, s)
RECURSIVE CollapseRuns(_, _)
CollapseRuns(s, c) ==
    IF Len(s) < 2 THEN s
    ELSE IF s[1] = c /\ s[2] = c THEN CollapseRuns(Tail(s), c)
    ELSE <<s[1]>> \o CollapseRuns(Tail(s), c)

\* s.split(c)[0]
RECURSIVE SplitFirst(_, _)
SplitFirst(s, c) ==
    IF s = <<>> \/ Head(s) = c THEN <<>> ELSE <<Head(s)>> \o SplitFirst(Tail(s), c)

\* the non-empty ones of a list of parts: filter(None, components)
RECURSIVE FilterNone(_)
FilterNone(parts) ==
    IF parts = <<>> THEN <<>>
    ELSE IF Head(parts).text = <<>> THEN FilterNone(Tail(parts))
    ELSE <<Head(parts)>> \o FilterNone(Tail(parts))

Part(name_, text_) == [name |-> name_, text |-> text_]
TextsOf(parts) == [k \in 1..Len(parts) |-> parts[k].text]
NamesOf(parts) == [k \in 1..Len(parts) |-> parts[k].name]
RaisedParagraph == [kind |-> "raised", parts |-> <<>>, text |-> <<>>]

(***************************************************************************)
(* _generate_journalistic_paragraph, core revision.                        *)
(***************************************************************************)
\* ' '.join(opening_text.split()[:n]) of the joined key sentences
RECURSIVE FirstWordsOf(_, _)
FirstWordsOf(keySentences, n) ==
    IF keySentences = <<>> \/ n <= 0 THEN <<>>
    ELSE IF Head(keySentences).words <= n
    THEN <<Head(keySentences).text>> \o FirstWordsOf(Tail(keySentences), n - Head(keySentences).words)
    ELSE <<Fragment>>

CreateFactualOpeningTextCore(keySentences, summaryText) ==
    IF keySentences # <<>>
    THEN LET taken == SubSeq(keySentences, 1, Min(KeySentencesTaken, Len(keySentences)))
             words == SumSeq([k \in 1..Len(taken) |-> taken[k].words])
         IN IF words > OpeningMaxWordsCore
            THEN JoinWith(FirstWordsOf(taken, OpeningMaxWordsCore), <<" ">>)
            ELSE JoinWith([k \in 1..Len(taken) |-> taken[k].text], <<" ">>)
    ELSE SplitFirst(summaryText, ".") \o <<".">>

\* '. '.join(fragments) + '.'
Sentenced(fragments) == JoinWith(fragments, <<".", " ">>) \o <<".">>
Marked(fragment, marker) == fragment \o <<" ", marker>>

CreateTradingAnalysisCore(story_type, sentiment) ==
    LET lead == IF story_type = "crypto"
                THEN IF sentiment = "negative"
                     THEN <<Marked(Fragment, "chart_down"), Fragment>>
                     ELSE <<Marked(Fragment, "bar_chart"), Fragment>>
                ELSE IF story_type = "stock_earnings"
                THEN <<Fragment, Fragment>>
                ELSE <<Marked(Fragment, "bar_chart"), Fragment>>
        correlation == IF story_type = "crypto" THEN <<Fragment, Fragment>> ELSE <<Fragment>>
    IN Sentenced(lead \o correlation)

InsightFragmentsCore(story_type, sentiment) ==
    IF story_type = "crypto"
    THEN IF sentiment = "positive" THEN <<Fragment, Marked(Fragment, "zap")>>
         ELSE IF sentiment = "negative" THEN <<Fragment, Fragment>>
         ELSE <<Fragment, Marked(Fragment, "alarm_clock")>>
    ELSE IF story_type = "stock_earnings"
    THEN <<Fragment, Fragment>>
    ELSE <<Fragment, Marked(Fragment, "alarm_clock")>>

CreateActionableInsightsCore(story_type, sentiment) ==
    Sentenced(InsightFragmentsCore(story_type, sentiment))

CreateSimplifiedAnalysisCore(sentiment, story_type) ==
    IF sentiment = "positive"
    THEN IF story_type = "stocks"
         THEN Sentenced(<<Marked(Fragment, "chart_up"), Fragment, Fragment, Fragment>>)
         ELSE Sentenced(<<Marked(Fragment, "rocket"), Fragment, Fragment, Fragment>>)
    ELSE IF sentiment = "negative"
    THEN IF story_type = "stocks"
         THEN Sentenced(<<Marked(Fragment, "chart_down"), Fragment, Fragment>>)
         ELSE Sentenced(<<Fragment, Fragment, Fragment, Fragment>>)
    ELSE Sentenced(<<Fragment, Fragment, Fragment>>)

\* the story type of the fast configuration, read off the body
FastStoryTypeCore(features) ==
    IF "tesla" \in features THEN "stocks"
    ELSE IF "crypto_word" \in features THEN "crypto"
    ELSE "stocks"

JournalisticParagraphTextCore(mode, story_type, sentiment, keySentences, summaryText, features) ==
    LET factual_opening_ == Part("factual_opening",
                                 CreateFactualOpeningTextCore(keySentences, summaryText))
        components ==
            IF mode = "fast"
            THEN <<factual_opening_,
                   Part("transition", Fragment),
                   Part("trading_analysis",
                        CreateSimplifiedAnalysisCore(sentiment, FastStoryTypeCore(features)))>>
            ELSE <<factual_opening_,
                   Part("transition", Fragment),
                   Part("trading_analysis", CreateTradingAnalysisCore(story_type, sentiment)),
                   Part("actionable_insights",
                        CreateActionableInsightsCore(story_type, sentiment))>>
    IN [kind |-> "returned",
        parts |-> FilterNone(components),
        text |-> JoinWith(TextsOf(FilterNone(components)), <<" ">>)]

(***************************************************************************)
(* _generate_journalistic_paragraph, legacy revision.                      *)
(***************************************************************************)
\* random.choice(GEN_Z_TRADING_VOCABULARY['emojis'][sentiment]): a KeyError
\* when the sentiment is no key of the table
EmojiKnownLegacy(sentiment) == sentiment \in DOMAIN EmojisLegacy
ChooseEmojiLegacy(sentiment, draw) == EmojisLegacy[sentiment][draw]

CreateFactualOpeningTextLegacy(summaryText, features) ==
    LET factual_base == Strip(summaryText)
        with_data == IF "percentage" \in features /\ "percentage_in_summary" \notin features
                     THEN factual_base \o <<"w", " ", "w">>
                     ELSE factual_base
    IN IF EndsWith(with_data, ".") THEN with_data ELSE with_data \o <<".">>

AnalysisPartsLegacy(story_type, sentiment, features, emoji) ==
    (IF story_type = "crypto"
     THEN IF sentiment = "bearish"
          THEN <<Marked(Fragment, emoji)>>
               \o (IF "policy" \in features THEN <<Fragment>> ELSE <<>>)
          ELSE <<Marked(Fragment, emoji)>>
     ELSE IF story_type = "stock_earnings"
     THEN IF sentiment = "bullish" THEN <<Marked(Fragment, emoji), Fragment>>
          ELSE IF sentiment = "bearish" THEN <<Marked(Fragment, emoji)>>
          ELSE <<>>
     ELSE <<>>)
    \o (IF "volume" \in features THEN <<Fragment>> ELSE <<>>)
    \o (IF story_type = "crypto" /\ "majors" \in features THEN <<Fragment>> ELSE <<>>)
    \o (IF story_type = "crypto" /\ "alts" \in features THEN <<Fragment>> ELSE <<>>)
    \o (IF "institutional" \in features THEN <<Fragment>> ELSE <<>>)
    \o (IF "percentage" \in features THEN <<Fragment>> ELSE <<>>)

CreateTradingAnalysisLegacy(story_type, sentiment, features, emoji) ==
    LET analysis_parts == AnalysisPartsLegacy(story_type, sentiment, features, emoji) IN
    IF Len(analysis_parts) >= 2
    THEN analysis_parts[1] \o <<".", " ">> \o analysis_parts[2] \o <<".", " ">>
         \o JoinWith(SubSeq(analysis_parts, 3, Len(analysis_parts)), <<".", " ">>)
    ELSE IF Len(analysis_parts) = 1
    THEN analysis_parts[1] \o <<".">>
    ELSE Fragment \o <<".">>

\* the market outlook, then the advice
InsightFragmentsLegacy(story_type, sentiment, features) ==
    LET insights == IF story_type = "crypto" THEN <<Fragment>> ELSE <<>>
        actionable_advice ==
            IF story_type = "crypto"
            THEN (IF "whale" \in features \/ "institutional" \in features
                  THEN <<Fragment>> ELSE <<>>) \o <<Fragment>>
            ELSE IF story_type \in {"stock_earnings", "fed_policy"}
            THEN <<Fragment>>
            ELSE <<Fragment>>
    IN insights \o actionable_advice

CreateActionableInsightsLegacy(story_type, sentiment, features, emoji) ==
    LET full_insights == InsightFragmentsLegacy(story_type, sentiment, features) IN
    IF Len(full_insights) >= 2
    THEN full_insights[1] \o <<".", " ">> \o JoinWith(Tail(full_insights), <<" ">>)
         \o <<" ", emoji>>
    ELSE full_insights[1] \o <<" ", emoji>>

AssembleStructuredParagraphLegacy(facts, transition, analysis, insights) ==
    LET facts_ == IF EndsWith(Strip(facts), ".") THEN Strip(facts) ELSE Strip(facts) \o <<".">>
        transition_ == Strip(transition)
        analysis_ == IF EndsWith(Strip(analysis), ".") THEN Strip(analysis)
                     ELSE Strip(analysis) \o <<".">>
        insights_ == IF ~EndsWith(Strip(insights), ".")
                        /\ Range(Strip(insights)) \cap AssembleMarkersLegacy = {}
                     THEN Strip(insights) \o <<".">>
                     ELSE Strip(insights)
        joined == JoinWith(<<facts_, transition_, analysis_, insights_>>, <<" ">>)
    IN [kind |-> "returned",
        parts |-> <<Part("factual_opening", facts_), Part("transition", transition_),
                    Part("trading_analysis", analysis_),
                    Part("actionable_insights", insights_)>>,
        text |-> Strip(CollapseRuns(CollapseRuns(joined, "."), " "))]

JournalisticParagraphTextLegacy(story_type, sentiment, summaryText, features, draws) ==
    IF ~EmojiKnownLegacy(sentiment)
    THEN RaisedParagraph
    ELSE AssembleStructuredParagraphLegacy(
             CreateFactualOpeningTextLegacy(summaryText, features),
             Fragment,
             CreateTradingAnalysisLegacy(story_type, sentiment, features,
                                         ChooseEmojiLegacy(sentiment, draws[1])),
             CreateActionableInsightsLegacy(story_type, sentiment, features,
                                            ChooseEmojiLegacy(sentiment, draws[2])))

(***************************************************************************)
(* The paragraph assembler as a state machine: a story type, a sentiment,  *)
(* a summary and what the body holds are given, and one revision           *)
(* assembles the paragraph.                                                *)
(***************************************************************************)
StoryTypes == {"crypto", "stock_earnings", "stock_movement", "fed_policy", "market_general"}
SentimentsLegacy == {"bullish", "bearish", "neutral"}
ParagraphSummaries ==
    {<<"w", " ", "w", ".">>, <<"w", " ", "w">>, <<"w", ".", ".", ".", " ", "w", ".">>,
     <<"w", " ", " ", "w", "!">>}
KeySentenceChoices ==
    {[text |-> <<"w", " ", "w", ".">>, words |-> 8, ended |-> TRUE],
     [text |-> <<"w", " ", "w", "?">>, words |-> 30, ended |-> TRUE],
     [text |-> <<"w", ".", ".", ".">>, words |-> 8, ended |-> TRUE],
     [text |-> <<"w", " ", "w">>, words |-> 8, ended |-> FALSE]}
\* the sentences sent_tokenize can give: only the last one of a body is unterminated
KeySentenceLists ==
    {ks \in SeqsUpTo(KeySentenceChoices, KeySentencesTaken) :
        \A k \in 1..(Len(ks) - 1) : ks[k].ended}
FeaturesLegacy ==
    {fs \in SUBSET {"policy", "volume", "majors", "alts", "institutional", "whale",
                    "percentage", "percentage_in_summary"} :
        "percentage_in_summary" \in fs => "percentage" \in fs}
FeaturesCore == SUBSET {"tesla", "crypto_word"}

InitParagraph ==
    /\ paraMode \in {"legacy", "standard", "fast"}
    /\ paraCategory \in StoryTypes
    /\ paraSentiment \in IF paraMode = "legacy" THEN SentimentsLegacy ELSE Polarities
    /\ paraSummary \in ParagraphSummaries
    /\ paraKeySentences \in IF paraMode = "legacy" THEN {<<>>} ELSE KeySentenceLists
    /\ paraFeatures \in IF paraMode = "legacy" THEN FeaturesLegacy ELSE FeaturesCore
    /\ paraDraws \in IF paraMode = "legacy"
                     THEN [1..2 -> 1..Len(EmojisLegacy.neutral)]
                     ELSE {<<>>}
    /\ paragraph = NoParagraph
    /\ assembledBy = "none"
    /\ ChunkIdle /\ SummaryIdle /\ TitleIdle /\ HashIdle /\ PipeIdle
    /\ ContextIdle /\ OpeningIdle /\ RerunIdle /\ TaskIdle

RunGenerateJournalisticParagraphCore ==
    /\ assembledBy = "none"
    /\ paraMode \in {"standard", "fast"}
    /\ paragraph' = JournalisticParagraphTextCore(paraMode, paraCategory, paraSentiment,
                                                  paraKeySentences, paraSummary, paraFeatures)
    /\ assembledBy' = "core"
    /\ UNCHANGED <<paraMode, paraCategory, paraSentiment, paraSummary, paraKeySentences,
                   paraFeatures, paraDraws, chunkVars, summaryVars, titleVars, hashVars,
                   pipeVars, contextVars, openingVars, rerunVars, taskVars>>

RunGenerateJournalisticParagraphLegacy ==
    /\ assembledBy = "none"
    /\ paraMode = "legacy"
    /\ paragraph' = JournalisticParagraphTextLegacy(paraCategory, paraSentiment, paraSummary,
                                                    paraFeatures, paraDraws)
    /\ assembledBy' = "legacy"
    /\ UNCHANGED <<paraMode, paraCategory, paraSentiment, paraSummary, paraKeySentences,
                   paraFeatures, paraDraws, chunkVars, summaryVars, titleVars, hashVars,
                   pipeVars, contextVars, openingVars, rerunVars, taskVars>>

NextParagraph == RunGenerateJournalisticParagraphCore \/ RunGenerateJournalisticParagraphLegacy

SpecParagraph == InitParagraph /\ [][NextParagraph]_vars

\* the pools of the revision that assembled the paragraph, and the polarity of
\* the sentiment it was given
PoolsOfRevision == IF assembledBy = "legacy" THEN EmojisLegacy ELSE EmojisCore
PolarityOf(sentiment) ==
    IF sentiment = "bullish" THEN "positive"
    ELSE IF sentiment = "bearish" THEN "negative"
    ELSE sentiment
PartsNamed(name_) == {k \in 1..Len(paragraph.parts) : paragraph.parts[k].name = name_}
ParagraphReturned == assembledBy # "none" /\ paragraph.kind = "returned"

(***************************************************************************)
(* C26: every paragraph returned is made of four non-empty parts in the    *)
(* order factual opening, transition, analysis, actionable insight, for    *)
(* every category and sentiment, in the standard and the fast              *)
(* configuration.                                                          *)
(***************************************************************************)
ParagraphHasFourParts ==
    ParagraphReturned =>
        /\ NamesOf(paragraph.parts)
             = <<"factual_opening", "transition", "trading_analysis", "actionable_insights">>
        /\ \A k \in 1..Len(paragraph.parts) : paragraph.parts[k].text # <<>>

(***************************************************************************)
(* C27: the actionable insight of a paragraph is made of one or two        *)
(* fragments and its last character is a marker of the pool of the         *)
(* detected polarity.                                                      *)
(***************************************************************************)
InsightEndsWithPolarityMarker ==
    (ParagraphReturned /\ PartsNamed("actionable_insights") # {}) =>
        LET fragments == IF assembledBy = "legacy"
                         THEN InsightFragmentsLegacy(paraCategory, paraSentiment, paraFeatures)
                         ELSE InsightFragmentsCore(paraCategory, paraSentiment)
        IN /\ Len(fragments) \in {1, 2}
           /\ \A k \in PartsNamed("actionable_insights") :
                LET insight == paragraph.parts[k].text IN
                insight[Len(insight)] \in Range(PoolsOfRevision[PolarityOf(paraSentiment)])

(***************************************************************************)
(* C28: a paragraph holds neither two periods in a row nor two blanks in a *)
(* row, each of its parts ends with terminal punctuation or with a         *)
(* decorative marker, and its factual opening ends with a period.          *)
(***************************************************************************)
ParagraphIsClean ==
    ParagraphReturned =>
        /\ ~HasRun(paragraph.text, ".")
        /\ ~HasRun(paragraph.text, " ")
        /\ \A k \in 1..Len(paragraph.parts) :
             LET part == paragraph.parts[k].text IN
             part[Len(part)] \in TerminalPunctuation \cup Markers(PoolsOfRevision)
        /\ \A k \in PartsNamed("factual_opening") : EndsWith(paragraph.parts[k].text, ".")

(***************************************************************************)
(* The whole development: any one of the components is run.                *)
(***************************************************************************)
Init == InitChunk \/ InitSummary \/ InitTitle \/ InitHashtags \/ InitPipeline \/ InitClassify \/ InitOpening \/ InitRerun \/ InitTasks \/ InitParagraph

Next == NextChunk \/ NextSummary \/ NextTitle \/ NextHashtags \/ NextPipeline \/ NextClassify \/ NextOpening \/ NextRerun \/ NextTasks \/ NextParagraph

Spec == Init /\ [][Next]_vars

====
